---- MODULE Spec2Model ----
(***************************************************************************)
(* Model of the two cores of the Multilingual Semantic Benchmark Suite:    *)
(*   - the graph crawler of DataGeneration/1_word_assembler.py             *)
(*     (process_file / traverse_synset and the fetch_* helpers), and       *)
(*   - the question assembler of DataGeneration/4_generate_questions.py    *)
(*     (QuestionGenerator).                                                *)
(* The remote lexical graph is a mock graph drawn from a small catalogue;  *)
(* random.choice / random.sample / random.shuffle are nondeterministic     *)
(* choices.                                                                *)
(***************************************************************************)
EXTENDS Integers, Sequences, FiniteSets, TLC

VARIABLES
    \* ---- crawler (1_word_assembler.py) ----
    graph,          \* the remote graph the bn client answers from
    failNodes,      \* identifiers for which bn.get_synset raises
    failEdges,      \* <<identifier, pointer>> for which outgoing_edges raises
    seeds,          \* synset_ids read from the input file
    max_depth,      \* process_file argument
    max_items,      \* process_file argument
    synset_cache,   \* _synset_cache: identifiers holding a fetched synset
    lemma_cache,    \* _lemma_cache: identifier -> lemma
    visited,        \* visited_synsets: identifier -> lemma
    queue,          \* the deque of traverse_synset: <<identifier, depth>>
    pbar,           \* updates of the progress bar of the running traversal
    seedIdx,        \* position of process_file's loop over synset_ids
    pc,             \* "seeds" | "traverse" | "done"
    output,         \* the lines written to output_file: identifier -> lemma
    run,            \* which call of process_file in this process is running
    served,         \* identifier -> number of synsets bn.get_synset returned
    discovered,     \* identifier -> "[+] Discovered synset" lines of this run
    expanded,       \* identifier -> times its relations were collected, this run
    \* ---- question assembler (4_generate_questions.py) ----
    data,           \* self.data: the node pool, a list of entries
    min_distractors,\* self.min_distractors
    n_choices,      \* self.n_choices
    lemma_lookup,   \* self.lemma_lookup: language code -> set of lemmas
    call,           \* arguments of the running _create_single_question call
    relation_entry, \* the related entry random.choice picked in that call
    question,       \* what the call returned: a Question or NoQuestion
    qpc,            \* "idle" | "ready" | "returned"
    \* ---- _generate_balanced_questions ----
    multilingual_mode,          \* the mode generate_task was called with
    relation_field,             \* "hypernyms" | "meronyms"
    target_questions_per_pair,
    valid_entries,              \* language pairs in dict order, each with its
                                \* list of (entry, valid_related_entries)
    pair_idx,                   \* position of the loop over valid_entries
    entries,                    \* the shuffled list of the running pair
    used_source_words,
    lang_pair_questions,
    questions,
    difficulty_enum,
    questions_generated,
    entry_idx,
    qid,
    bpc,            \* "idle" | "pairs" | "while" | "returned"
    \* ---- relation filter (2_fetch_words_with_hyper_mero.py) ----
    service,        \* the mock graph and the requests that raise
    infile,         \* the input lines: an identifier or a blank line
    max_lines,      \* process_file argument
    line_i,         \* i of enumerate(infile): lines consumed so far
    outfile,        \* the identifiers written, in order
    fpc,            \* "idle" | "lines" | "closed"
    \* ---- AnalogyGenerator (generate_analogies.py) ----
    analogy,        \* the generator object: data, min_distractors, n_choices,
                    \* lemma_lookup and semantic_relations
    used_pairs,     \* the (C, D) pairs used in the running language pair
    analogy_call,   \* the last _create_single_question call and its outcome
    analogy_calls,  \* calls made on the generator so far
    \* ---- GlossQuestionGenerator (6_generate_gloss_questions.py) ----
    gloss,                  \* the generator object: data, min_distractors,
                            \* n_choices and lemma_lookup
    gloss_mode,             \* multilingual_mode of the call
    gloss_target,           \* target_questions_per_pair of the call
    gloss_valid_entries,    \* language pairs in dict order with their entries
    gloss_pair_idx,         \* position of the loop over valid_entries
    gloss_entries,          \* the shuffled entries of the running pair
    used_glosses,
    gloss_difficulty,       \* value of the running DifficultyLevel
    gloss_entry_idx,        \* position of the loop over entries
    generated_count,
    gloss_questions,        \* the local list questions
    gloss_qid,              \* the local counter qid
    gpc             \* "idle" | "pairs" | "entries" | "saved"

crawlVars == <<graph, failNodes, failEdges, seeds, max_depth, max_items,
               synset_cache, lemma_cache, visited, queue, pbar, seedIdx, pc,
               output, run, served, discovered, expanded>>

genVars == <<data, min_distractors, n_choices, lemma_lookup, call, relation_entry,
             question, qpc>>

balVars == <<multilingual_mode, relation_field, target_questions_per_pair,
             valid_entries, pair_idx, entries, used_source_words,
             lang_pair_questions, questions, difficulty_enum, questions_generated,
             entry_idx, qid, bpc>>

filterVars == <<service, infile, max_lines, line_i, outfile, fpc>>

analogyVars == <<analogy, used_pairs, analogy_call, analogy_calls>>

glossVars == <<gloss, gloss_mode, gloss_target, gloss_valid_entries, gloss_pair_idx,
               gloss_entries, used_glosses, gloss_difficulty, gloss_entry_idx,
               generated_count, gloss_questions, gloss_qid, gpc>>

vars == <<crawlVars, genVars, balVars, filterVars, analogyVars, glossVars>>

-----------------------------------------------------------------------------
(* Bounds of the crawler model *)

MaxDepth == 2
MaxItems == 3
MaxSeeds == 2
MaxRuns == 2

-----------------------------------------------------------------------------
(* The mock graph service *)

Nodes == 1..4

NA == "N/A"

\* Python's None where an identifier was expected (identifiers are 1..4).
None == 0

HYPERNYM == "ANY_HYPERNYM"
HYPONYM == "ANY_HYPONYM"
PART == "PART_MERONYM"
MEMBER == "MEMBER_MERONYM"
SUBSTANCE == "SUBSTANCE_MERONYM"

Pointers == {HYPERNYM, HYPONYM, PART, MEMBER, SUBSTANCE}

NoEdges == << <<>>, <<>>, <<>>, <<>> >>

AllLabelled == <<"w1", "w2", "w3", "w4">>

MkGraph(hy, ho, pa, me, su, le) ==
    [hyper |-> hy, hypo |-> ho, part |-> pa, member |-> me, substance |-> su,
     lemma |-> le]

\* The identifiers the service knows.
NodesOf(g) == DOMAIN g.lemma

\* A catalogue of mock graphs over four nodes: a chain, a cycle, a star, a
\* sibling family, a wide fan-out, part-of edges of the three sub-kinds, an
\* unlabelled node on a path, a node with two broader terms, an unlabelled
\* sibling, and an unlabelled broader term with two narrower terms.
Graphs ==
    { MkGraph(<< <<2>>, <<3>>, <<4>>, <<>> >>,
              << <<>>, <<1>>, <<2>>, <<3>> >>, NoEdges, NoEdges, NoEdges, AllLabelled),
      MkGraph(<< <<2>>, <<3>>, <<1>>, <<1>> >>,
              NoEdges, NoEdges, NoEdges, NoEdges, AllLabelled),
      MkGraph(<< <<2>>, <<4>>, <<>>, <<>> >>,
              << <<3>>, <<>>, <<>>, <<>> >>, NoEdges, NoEdges, NoEdges, AllLabelled),
      MkGraph(<< <<4>>, <<4>>, <<4>>, <<>> >>,
              << <<>>, <<>>, <<>>, <<1, 2, 3>> >>, NoEdges, NoEdges, NoEdges, AllLabelled),
      MkGraph(<< <<2, 3, 4>>, <<>>, <<>>, <<>> >>,
              << <<>>, <<1>>, <<1>>, <<1>> >>, NoEdges, NoEdges, NoEdges, AllLabelled),
      MkGraph(NoEdges, NoEdges,
              << <<2>>, <<>>, <<>>, <<>> >>,
              << <<3>>, <<>>, <<>>, <<>> >>,
              << <<4>>, <<>>, <<>>, <<>> >>, AllLabelled),
      MkGraph(<< <<>>, <<1>>, <<>>, <<>> >>, NoEdges,
              << <<2, 3>>, <<>>, <<>>, <<>> >>,
              << <<4>>, <<>>, <<>>, <<>> >>, NoEdges, AllLabelled),
      MkGraph(<< <<2, 4>>, <<3>>, <<>>, <<>> >>,
              << <<>>, <<>>, <<2>>, <<>> >>, NoEdges, NoEdges, NoEdges,
              <<"w1", NA, "w3", "w4">>),
      MkGraph(<< <<2, 3>>, <<>>, <<>>, <<>> >>,
              << <<>>, <<1, 4>>, <<4, 1>>, <<>> >>, NoEdges, NoEdges, NoEdges, AllLabelled),
      MkGraph(<< <<2>>, <<>>, <<2>>, <<2>> >>,
              << <<>>, <<3, 1, 4>>, <<>>, <<>> >>, NoEdges, NoEdges, NoEdges,
              <<"w1", "w2", NA, "w4">>),
      MkGraph(<< <<2>>, <<>>, <<2>>, <<>> >>,
              << <<>>, <<1, 3>>, <<4>>, <<>> >>, NoEdges, NoEdges, NoEdges,
              <<"w1", NA, "w3", "w4">>) }

\* synset.outgoing_edges(pointer): the targets, in the graph's native order.
OutgoingEdges(g, n, p) ==
    CASE p = HYPERNYM -> g.hyper[n]
      [] p = HYPONYM -> g.hypo[n]
      [] p = PART -> g.part[n]
      [] p = MEMBER -> g.member[n]
      [] p = SUBSTANCE -> g.substance[n]

-----------------------------------------------------------------------------
(* Helper functions of 1_word_assembler.py *)

\* get_cached_synset: the synset (its identifier) or None. A cached synset is
\* returned without asking the service; otherwise bn.get_synset is called and
\* an exception is swallowed.
GetCachedSynset(cache, fails, id) ==
    IF id \in cache THEN id
    ELSE IF id \in fails THEN None ELSE id

\* The _synset_cache after get_cached_synset was called for every id of ids.
CacheAfterFetch(cache, fails, ids) ==
    cache \cup {id \in ids : GetCachedSynset(cache, fails, id) # None}

\* get_lemma that answers "N/A" for a synset whose lemma is already cached.
GetLemmaLosingCached(g, lcache, synset) ==
    IF synset = None THEN NA
    ELSE IF synset \in DOMAIN lcache THEN NA
    ELSE g.lemma[synset]

\* get_lemma: "N/A" for no synset, else the cached lemma, else main_sense(EN).
GetLemma(g, lcache, synset) ==
    IF synset = None THEN NA
    ELSE IF synset \in DOMAIN lcache THEN lcache[synset]
    ELSE g.lemma[synset]

\* The _lemma_cache after get_lemma was called for the synsets of ids that
\* could be fetched.
LemmaCacheAfter(g, cache, lcache, fails, ids) ==
    LET got == {id \in ids : GetCachedSynset(cache, fails, id) # None}
    IN  [id \in (DOMAIN lcache) \cup got |->
            IF id \in DOMAIN lcache THEN lcache[id] ELSE g.lemma[id]]

\* The loop of fetch_edges without the test of the lemma: every target is
\* appended.
RECURSIVE FetchEdgesLoopUnfiltered(_, _, _, _, _, _, _, _, _)
FetchEdgesLoopUnfiltered(g, cache, lcache, fails, edges, i, items, touched, K) ==
    IF i > Len(edges) THEN [items |-> items, touched |-> touched]
    ELSE IF Len(items) + 1 >= K
    THEN [items |-> Append(items, edges[i]), touched |-> touched \cup {edges[i]}]
    ELSE FetchEdgesLoopUnfiltered(g, cache, lcache, fails, edges, i + 1,
                                  Append(items, edges[i]), touched \cup {edges[i]}, K)

\* The loop of fetch_edges over edges[i..]: items collected so far and the
\* targets looked up so far. The length test follows the append, so the loop
\* stops after the first edge that leaves len(items) >= max_items.
RECURSIVE FetchEdgesLoop(_, _, _, _, _, _, _, _, _)
FetchEdgesLoop(g, cache, lcache, fails, edges, i, items, touched, K) ==
    IF i > Len(edges) THEN [items |-> items, touched |-> touched]
    ELSE LET t == edges[i]
             lemma == GetLemma(g, lcache, GetCachedSynset(cache, fails, t))
             items2 == IF lemma # NA THEN Append(items, t) ELSE items
         IN  IF Len(items2) >= K
             THEN [items |-> items2, touched |-> touched \cup {t}]
             ELSE FetchEdgesLoop(g, cache, lcache, fails, edges, i + 1, items2,
                                 touched \cup {t}, K)

\* fetch_edges(synset, pointer, relation_type, max_items): an exception of
\* outgoing_edges leaves items empty.
FetchEdges(g, cache, lcache, fails, efails, n, p, K) ==
    IF <<n, p>> \in efails THEN [items |-> <<>>, touched |-> {}]
    ELSE FetchEdgesLoop(g, cache, lcache, fails, OutgoingEdges(g, n, p), 1, <<>>, {}, K)

FetchHypernyms(g, cache, lcache, fails, efails, n, K) ==
    FetchEdges(g, cache, lcache, fails, efails, n, HYPERNYM, K)

\* The narrower-term query sent with the broader-term pointer.
FetchHyponymsByHypernymPointer(g, cache, lcache, fails, efails, n, K) ==
    FetchEdges(g, cache, lcache, fails, efails, n, HYPERNYM, K)

FetchHyponyms(g, cache, lcache, fails, efails, n, K) ==
    FetchEdges(g, cache, lcache, fails, efails, n, HYPONYM, K)

MeronymPointers == <<PART, MEMBER, SUBSTANCE>>

Take(s, k) == SubSeq(s, 1, IF k < Len(s) THEN k ELSE Len(s))

\* The loop of fetch_meronyms over meronym_pointers[j..].
RECURSIVE FetchMeronymsLoop(_, _, _, _, _, _, _, _, _, _)
FetchMeronymsLoop(g, cache, lcache, fails, efails, n, j, items, touched, K) ==
    IF j > Len(MeronymPointers) THEN [items |-> items, touched |-> touched]
    ELSE LET r == FetchEdges(g, cache, lcache, fails, efails, n, MeronymPointers[j], K)
             items2 == items \o r.items
             touched2 == touched \cup r.touched
         IN  IF Len(items2) >= K
             THEN [items |-> items2, touched |-> touched2]
             ELSE FetchMeronymsLoop(g, cache, lcache, fails, efails, n, j + 1,
                                    items2, touched2, K)

\* fetch_meronyms(synset, max_items): the three sub-kinds, cut to max_items.
FetchMeronyms(g, cache, lcache, fails, efails, n, K) ==
    LET r == FetchMeronymsLoop(g, cache, lcache, fails, efails, n, 1, <<>>, {}, K)
    IN  [items |-> Take(r.items, K), touched |-> r.touched]

\* The inner loop of get_cohyponyms over hyponym_edges[i..] of one hypernym.
RECURSIVE CohyponymInner(_, _, _, _, _, _, _, _, _, _)
CohyponymInner(g, cache, lcache, fails, n, edges, i, items, touched, K) ==
    IF i > Len(edges) THEN [items |-> items, touched |-> touched]
    ELSE LET t == edges[i]
             lemma == GetLemma(g, lcache, GetCachedSynset(cache, fails, t))
             items2 == IF t # n /\ lemma # NA THEN Append(items, t) ELSE items
             touched2 == IF t # n THEN touched \cup {t} ELSE touched
         IN  IF Len(items2) >= K
             THEN [items |-> items2, touched |-> touched2]
             ELSE CohyponymInner(g, cache, lcache, fails, n, edges, i + 1, items2,
                                 touched2, K)

\* The outer loop of get_cohyponyms over hypernym_edges[j..]. fetched collects
\* the hypernyms looked up (no lemma is asked for them); an exception of a
\* hypernym's outgoing_edges ends the collection with what was gathered
\* (raised tells that the except clause was entered).
RECURSIVE CohyponymOuter(_, _, _, _, _, _, _, _, _, _, _, _)
CohyponymOuter(g, cache, lcache, fails, efails, n, hyps, j, items, touched, fetched, K) ==
    IF j > Len(hyps)
    THEN [items |-> items, touched |-> touched, fetched |-> fetched, raised |-> FALSE]
    ELSE LET h == hyps[j]
             hs == GetCachedSynset(cache, fails, h)
         IN  IF hs = None
             THEN CohyponymOuter(g, cache, lcache, fails, efails, n, hyps, j + 1,
                                 items, touched, fetched \cup {h}, K)
             ELSE IF <<h, HYPONYM>> \in efails
             THEN [items |-> items, touched |-> touched, fetched |-> fetched \cup {h},
                   raised |-> TRUE]
             ELSE LET r == CohyponymInner(g, cache, lcache, fails, n,
                                          OutgoingEdges(g, h, HYPONYM), 1, items,
                                          touched, K)
                  IN  IF Len(r.items) >= K
                      THEN [items |-> r.items, touched |-> r.touched,
                            fetched |-> fetched \cup {h}, raised |-> FALSE]
                      ELSE CohyponymOuter(g, cache, lcache, fails, efails, n, hyps,
                                          j + 1, r.items, r.touched,
                                          fetched \cup {h}, K)

\* get_cohyponyms(synset, max_items)
GetCohyponyms(g, cache, lcache, fails, efails, n, K) ==
    IF <<n, HYPERNYM>> \in efails
    THEN [items |-> <<>>, touched |-> {}, fetched |-> {}, raised |-> TRUE]
    ELSE CohyponymOuter(g, cache, lcache, fails, efails, n,
                        OutgoingEdges(g, n, HYPERNYM), 1, <<>>, {}, {}, K)

-----------------------------------------------------------------------------
(* traverse_synset and process_file *)

\* The relations gathered for one expanded node, in the order of
\* all_relations, with the identifiers whose synset and lemma were looked up
\* (touched) and those whose synset alone was looked up (fetched).
AllRelations(g, cache, lcache, fails, efails, n, K) ==
    LET hy == FetchHypernyms(g, cache, lcache, fails, efails, n, K)
        ho == FetchHyponyms(g, cache, lcache, fails, efails, n, K)
        me == FetchMeronyms(g, cache, lcache, fails, efails, n, K)
        co == GetCohyponyms(g, cache, lcache, fails, efails, n, K)
    IN  [items |-> hy.items \o ho.items \o me.items \o co.items,
         touched |-> hy.touched \cup ho.touched \cup me.touched \cup co.touched,
         fetched |-> co.fetched]

\* The for loop at the end of the while body: every relation not yet in
\* visited is appended with depth + 1.
RECURSIVE Enqueue(_, _, _, _)
Enqueue(q, items, seen, depth) ==
    IF items = <<>> THEN q
    ELSE Enqueue(IF Head(items) \in seen THEN q ELSE Append(q, <<Head(items), depth>>),
                 Tail(items), seen, depth)

\* The head is read but left in the queue.
PopLeftPeek(q) == q

\* queue.popleft(): the queue without its first element.
PopLeft(q) == Tail(q)

\* The test of visited left out.
NeverVisited(seen, current_id) == FALSE

\* current_id in visited.
AlreadyVisited(seen, current_id) == current_id \in DOMAIN seen

\* The depth test off by one (> instead of >=).
ExpandsInclusive(current_id, current_depth) ==
    /\ ~AlreadyVisited(visited, current_id)
    /\ GetCachedSynset(synset_cache, failNodes, current_id) # None
    /\ current_depth <= max_depth

\* Whether the node popped from the queue gets its relations collected.
Expands(current_id, current_depth) ==
    /\ ~AlreadyVisited(visited, current_id)
    /\ GetCachedSynset(synset_cache, failNodes, current_id) # None
    /\ current_depth < max_depth

SeedLists ==
    {s \in UNION {[1..k -> Nodes] : k \in 1..MaxSeeds} :
        \A i, j \in DOMAIN s : i # j => s[i] # s[j]}

\* No failure, one identifier that cannot be fetched, or one relation query
\* that raises.
FailureChoices ==
    {[nodes |-> {}, edges |-> {}]}
    \cup {[nodes |-> {n}, edges |-> {}] : n \in Nodes}
    \cup {[nodes |-> {}, edges |-> {<<n, p>>}] : n \in Nodes, p \in Pointers}

\* Python's None where a related entry, a Question or a call was expected.
NoEntry == [synset_id |-> None, translations |-> {}]

NoMetadata ==
    [resource_pair |-> <<>>, prompt_lang |-> "", from_lang |-> "", to_lang |-> "",
     difficulty |-> 0, distractor_type |-> "", synset_id |-> None,
     multilingual_mode |-> ""]

NoQuestion ==
    [id |-> <<>>, prompt |-> <<>>, options |-> <<>>, answer_index |-> -1,
     metadata |-> NoMetadata]

NoCall ==
    [entry |-> NoEntry, valid_related_entries |-> <<>>, from_code |-> "",
     to_code |-> "", task_type |-> "", difficulty |-> 0, qid |-> 0]

\* No QuestionGenerator has been constructed.
NoGenerator ==
    /\ data = <<>>
    /\ min_distractors = 0
    /\ n_choices = 0
    /\ lemma_lookup = <<>>

\* No _create_single_question call is observed.
NoSingleCall ==
    /\ call = NoCall
    /\ relation_entry = NoEntry
    /\ question = NoQuestion
    /\ qpc = "idle"

\* The locals of _generate_balanced_questions outside a language pair.
NoPairLocals ==
    /\ entries = <<>>
    /\ used_source_words = {}
    /\ lang_pair_questions = <<>>
    /\ difficulty_enum = 0
    /\ questions_generated = 0
    /\ entry_idx = 0

\* No _generate_balanced_questions call is running.
NoBalancedCall ==
    /\ multilingual_mode = ""
    /\ relation_field = ""
    /\ target_questions_per_pair = 0
    /\ valid_entries = <<>>
    /\ pair_idx = 0
    /\ NoPairLocals
    /\ questions = <<>>
    /\ qid = 0
    /\ bpc = "idle"

\* No crawl is running.
NoCrawl ==
    /\ graph = MkGraph(NoEdges, NoEdges, NoEdges, NoEdges, NoEdges, AllLabelled)
    /\ failNodes = {}
    /\ failEdges = {}
    /\ seeds = <<>>
    /\ max_depth = 0
    /\ max_items = 0
    /\ synset_cache = {}
    /\ lemma_cache = <<>>
    /\ visited = <<>>
    /\ queue = <<>>
    /\ pbar = 0
    /\ seedIdx = 0
    /\ pc = "idle"
    /\ output = <<>>
    /\ run = 0
    /\ served = [n \in NodesOf(graph) |-> 0]
    /\ discovered = [n \in NodesOf(graph) |-> 0]
    /\ expanded = [n \in NodesOf(graph) |-> 0]

\* No relation-filter pass is running.
NoFilter ==
    /\ service = [graph |-> MkGraph(NoEdges, NoEdges, NoEdges, NoEdges, NoEdges, AllLabelled),
                  failNodes |-> {}, failEdges |-> {}]
    /\ infile = <<>>
    /\ max_lines = 0
    /\ line_i = 0
    /\ outfile = <<>>
    /\ fpc = "idle"

NoAnalogyCall ==
    [difficulty |-> 0, to_code |-> "", relation_type |-> "",
     D_correct_lemma |-> <<>>, all_candidates |-> {}, distractors |-> {},
     returned |-> "none"]

\* No AnalogyGenerator has been constructed.
NoAnalogy ==
    /\ analogy = [data |-> <<>>, min_distractors |-> 0, n_choices |-> 0,
                  lemma_lookup |-> <<>>, semantic_relations |-> <<>>]
    /\ used_pairs = {}
    /\ analogy_call = NoAnalogyCall
    /\ analogy_calls = 0

\* No GlossQuestionGenerator has been constructed.
NoGloss ==
    /\ gloss = [data |-> <<>>, min_distractors |-> 0, n_choices |-> 0,
                lemma_lookup |-> <<>>]
    /\ gloss_mode = ""
    /\ gloss_target = 0
    /\ gloss_valid_entries = <<>>
    /\ gloss_pair_idx = 0
    /\ gloss_entries = <<>>
    /\ used_glosses = {}
    /\ gloss_difficulty = 0
    /\ gloss_entry_idx = 0
    /\ generated_count = 0
    /\ gloss_questions = <<>>
    /\ gloss_qid = 0
    /\ gpc = "idle"

CrawlInit ==
    /\ NoGenerator /\ NoSingleCall /\ NoBalancedCall /\ NoFilter /\ NoAnalogy /\ NoGloss
    /\ graph \in Graphs
    /\ \E f \in FailureChoices : failNodes = f.nodes /\ failEdges = f.edges
    /\ seeds \in SeedLists
    /\ max_depth \in 0..MaxDepth
    /\ max_items \in (0..MaxItems) \cup {10}
    /\ synset_cache = {}
    /\ lemma_cache = <<>>
    /\ visited = <<>>
    /\ queue = <<>>
    /\ pbar = 0
    /\ seedIdx = 1
    /\ pc = "seeds"
    /\ output = <<>>
    /\ run = 1
    /\ served = [n \in NodesOf(graph) |-> 0]
    /\ discovered = [n \in NodesOf(graph) |-> 0]
    /\ expanded = [n \in NodesOf(graph) |-> 0]

\* The node cache emptied before a root is traversed.
SynsetCacheCleared(cache) == {}

\* The node cache as process_file hands it from one root to the next: kept
\* (the statements that would clear it are commented out).
SynsetCacheAtRoot(cache) == cache

\* process_file: the next root is handed to traverse_synset, which starts
\* with queue = deque([(synset_id, 0)]).
StartTraversal ==
    /\ pc = "seeds"
    /\ seedIdx <= Len(seeds)
    /\ queue' = << <<seeds[seedIdx], 0>> >>
    /\ pbar' = 0
    /\ pc' = "traverse"
    /\ synset_cache' = SynsetCacheAtRoot(synset_cache)
    /\ UNCHANGED <<graph, failNodes, failEdges, seeds, max_depth, max_items,
                   lemma_cache, visited, seedIdx, output, run, served,
                   discovered, expanded>>
    /\ UNCHANGED <<genVars, balVars, filterVars, analogyVars, glossVars>>

\* One iteration of the while loop of traverse_synset.
TraverseStep ==
    /\ pc = "traverse"
    /\ queue # <<>>
    /\ LET current_id == Head(queue)[1]
           current_depth == Head(queue)[2]
           synset == GetCachedSynset(synset_cache, failNodes, current_id)
           cache1 == CacheAfterFetch(synset_cache, failNodes, {current_id})
           lcache1 == LemmaCacheAfter(graph, synset_cache, lemma_cache, failNodes,
                                      {current_id})
           lemma == GetLemma(graph, lemma_cache, synset)
           visited1 == [id \in (DOMAIN visited) \cup {current_id} |->
                           IF id = current_id THEN lemma ELSE visited[id]]
           rels == AllRelations(graph, cache1, lcache1, failNodes, failEdges,
                                current_id, max_items)
           once == [n \in NodesOf(graph) |-> IF n = current_id THEN 1 ELSE 0]
       IN  IF AlreadyVisited(visited, current_id)
           THEN /\ queue' = PopLeft(queue)
                /\ UNCHANGED <<synset_cache, lemma_cache, visited, discovered, expanded>>
           ELSE IF synset = None
           THEN /\ queue' = PopLeft(queue)
                /\ UNCHANGED <<synset_cache, lemma_cache, visited, discovered, expanded>>
           ELSE IF ~Expands(current_id, current_depth)
           THEN /\ queue' = PopLeft(queue)
                /\ synset_cache' = cache1
                /\ lemma_cache' = lcache1
                /\ visited' = visited1
                /\ discovered' = [n \in NodesOf(graph) |-> discovered[n] + once[n]]
                /\ UNCHANGED expanded
           ELSE /\ discovered' = [n \in NodesOf(graph) |-> discovered[n] + once[n]]
                /\ expanded' = [n \in NodesOf(graph) |-> expanded[n] + once[n]]
                /\ queue' = Enqueue(PopLeft(queue), rels.items, DOMAIN visited1,
                                    current_depth + 1)
                /\ synset_cache' = CacheAfterFetch(cache1, failNodes,
                                                   rels.touched \cup rels.fetched)
                /\ lemma_cache' = LemmaCacheAfter(graph, cache1, lcache1, failNodes,
                                                  rels.touched)
                /\ visited' = visited1
    /\ pbar' = pbar + 1
    /\ served' = [n \in NodesOf(graph) |->
                     served[n] + (IF n \in synset_cache' \ synset_cache THEN 1 ELSE 0)]
    /\ UNCHANGED <<graph, failNodes, failEdges, seeds, max_depth, max_items,
                   seedIdx, pc, output, run>>
    /\ UNCHANGED <<genVars, balVars, filterVars, analogyVars, glossVars>>

\* The queue is empty: traverse_synset returns and process_file moves on.
EndTraversal ==
    /\ pc = "traverse"
    /\ queue = <<>>
    /\ seedIdx' = seedIdx + 1
    /\ pc' = "seeds"
    /\ UNCHANGED <<graph, failNodes, failEdges, seeds, max_depth, max_items,
                   synset_cache, lemma_cache, visited, queue, pbar, output, run, served,
                   discovered, expanded>>
    /\ UNCHANGED <<genVars, balVars, filterVars, analogyVars, glossVars>>

\* process_file writes one line per entry of visited_synsets.
WriteOutput ==
    /\ pc = "seeds"
    /\ seedIdx > Len(seeds)
    /\ output' = visited
    /\ pc' = "done"
    /\ UNCHANGED <<graph, failNodes, failEdges, seeds, max_depth, max_items,
                   synset_cache, lemma_cache, visited, queue, pbar, seedIdx, run, served,
                   discovered, expanded>>
    /\ UNCHANGED <<genVars, balVars, filterVars, analogyVars, glossVars>>

\* process_file is called again in the same process with the same
\* arguments: visited_synsets is a new dict, the module-level caches and the
\* output file of the earlier call are still there.
RunAgain ==
    /\ pc = "done"
    /\ run < MaxRuns
    /\ run' = run + 1
    /\ visited' = <<>>
    /\ seedIdx' = 1
    /\ pc' = "seeds"
    /\ discovered' = [n \in NodesOf(graph) |-> 0]
    /\ expanded' = [n \in NodesOf(graph) |-> 0]
    /\ UNCHANGED <<graph, failNodes, failEdges, seeds, max_depth, max_items,
                   synset_cache, lemma_cache, queue, pbar, output, served>>
    /\ UNCHANGED <<genVars, balVars, filterVars, analogyVars, glossVars>>

CrawlNext == StartTraversal \/ TraverseStep \/ EndTraversal \/ WriteOutput

Init == CrawlInit

Next == StartTraversal \/ TraverseStep \/ EndTraversal \/ WriteOutput \/ RunAgain

Spec == Init /\ [][Next]_vars

-----------------------------------------------------------------------------
(* Vocabulary of the crawler claims *)

Range(s) == {s[i] : i \in DOMAIN s}

NoFailures == failNodes = {} /\ failEdges = {}

SeedsFetchable == Range(seeds) \cap failNodes = {}

EveryNodeLabelled(g) == \A n \in Nodes : g.lemma[n] # NA

\* Sibling terms of n: the narrower terms of its broader terms, n excluded;
\* broader terms in avoid contribute none.
Siblings(g, n, avoid) ==
    UNION {Range(g.hypo[h]) \ {n} : h \in Range(g.hyper[n]) \ avoid}

\* The neighbours of n over broader-term, narrower-term, part-of and
\* sibling-term edges, nodes of avoid left out.
Neighbours(g, n, avoid) ==
    (Range(g.hyper[n]) \cup Range(g.hypo[n]) \cup Range(g.part[n])
        \cup Range(g.member[n]) \cup Range(g.substance[n])
        \cup Siblings(g, n, avoid)) \ avoid

\* The nodes within d hops of a node of S along paths that avoid `avoid`.
RECURSIVE Reach(_, _, _, _)
Reach(g, S, d, avoid) ==
    IF d = 0 THEN S \ avoid
    ELSE LET R == Reach(g, S, d - 1, avoid)
         IN  R \cup UNION {Neighbours(g, n, avoid) : n \in R}

SeqSum3(a, b, c) == Len(a) + Len(b) + Len(c)

\* The largest number of neighbours of one relation kind any node has
\* (part-of counted over its three sub-kinds, sibling terms with repetition).
RECURSIVE SumLen(_, _, _)
SumLen(g, hs, n) ==
    IF hs = <<>> THEN 0
    ELSE Len(g.hypo[Head(hs)]) + SumLen(g, Tail(hs), n)

KindDegrees(g, n) ==
    {Len(g.hyper[n]), Len(g.hypo[n]),
     SeqSum3(g.part[n], g.member[n], g.substance[n]),
     SumLen(g, g.hyper[n], n)}

MaxOutDegree(g) ==
    CHOOSE d \in UNION {KindDegrees(g, n) : n \in Nodes} :
        \A e \in UNION {KindDegrees(g, n) : n \in Nodes} : e <= d

AmpleFanOut == max_items >= MaxOutDegree(graph)

-----------------------------------------------------------------------------
(* Claims about the crawler *)

\* C4: with max_items = 0 and fetchable seeds, process_file outputs exactly
\* the seed identifiers, whatever max_depth is (no neighbour is discovered).
\* Stated as claimed; the length test of fetch_edges follows the append, so
\* one neighbour per relation query still gets through.
C4_ZeroFanOutOutputsSeeds ==
    (pc = "done" /\ max_items = 0 /\ SeedsFetchable)
        => DOMAIN output = Range(seeds)

\* C5: with no failures, every node labelled and ample fan-out, the output of
\* process_file is the set of nodes within max_depth hops of some seed.
\* Stated as claimed; a seed already recorded at depth max_depth by an
\* earlier seed's traversal is skipped and never expanded.
C5_OutputIsReachableSet ==
    (pc = "done" /\ NoFailures /\ EveryNodeLabelled(graph) /\ AmpleFanOut)
        => DOMAIN output = Reach(graph, Range(seeds), max_depth, {})

\* C6: with max_depth = 0 and fetchable seeds, process_file outputs exactly
\* the seed identifiers for every max_items, and no relation of a seed is
\* queried: nothing but seeds is ever looked up, recorded or queued.
C6_ZeroDepthOutputsSeeds ==
    (max_depth = 0 /\ SeedsFetchable)
        => /\ synset_cache \subseteq Range(seeds)
           /\ DOMAIN lemma_cache \subseteq Range(seeds)
           /\ DOMAIN visited \subseteq Range(seeds)
           /\ \A i \in DOMAIN queue : queue[i][1] \in Range(seeds) /\ queue[i][2] = 0
           /\ pc = "done" => DOMAIN output = Range(seeds)

\* A zero-depth crawl of a seed that has neighbours has finished.
C6_Witness ==
    /\ pc = "done"
    /\ max_depth = 0
    /\ NoFailures
    /\ \E i \in DOMAIN seeds : Neighbours(graph, seeds[i], {}) \ Range(seeds) # {}
    /\ DOMAIN output = Range(seeds)

\* The most relations one expansion can append to the queue: each of the four
\* collections holds at most max_items + 1 entries.
QueueGrowth == 4 * (max_items + 1)

\* More than the Variant of one call of process_file at its start.
RunWeight == Cardinality(Nodes) * QueueGrowth + 3 * Len(seeds) + 3

\* A natural number that every step of the crawl makes smaller: the nodes
\* not yet visited, the queue length, the roots left, the position in
\* process_file and the calls of process_file still to come.
Variant ==
    IF pc = "done" THEN (MaxRuns - run) * RunWeight
    ELSE Cardinality(Nodes \ DOMAIN visited) * QueueGrowth + Len(queue)
         + 3 * (IF seedIdx > Len(seeds) THEN 0 ELSE Len(seeds) - seedIdx + 1)
         + (IF pc = "seeds" THEN 2 ELSE 0)
         + (MaxRuns - run) * RunWeight

\* C7: for every graph (cycles included), seed list, max_depth and max_items
\* the queue of every traversal empties and process_file terminates: until
\* the output is written some step is always possible, and every step
\* strictly decreases the natural-valued Variant, so no run is infinite.
C7_CrawlTerminates ==
    /\ [](/\ pc \in {"seeds", "traverse", "done"}
          /\ Variant \in Nat
          /\ pc = "done" => queue = <<>> /\ seedIdx > Len(seeds))
    /\ [][Variant' < Variant]_vars

\* A crawl over a graph with a cycle 1 -> 2 -> 3 -> 1 has gone all the way
\* round and finished.
C7_Witness ==
    /\ pc = "done"
    /\ max_depth >= 2
    /\ graph.hyper[3] = <<1>>
    /\ graph.hyper[1] = <<2>>
    /\ {1, 2, 3} \subseteq DOMAIN output

\* C8: when fetching one node raises, the crawl still finishes, the failing
\* node is not in the output and, with ample fan-out, every node within
\* max_depth hops of a seed along a path avoiding the failing node is.
\* Stated as claimed; it fails through the skipped seeds of C5.
C8_FailingNodeOnlyLosesItsPaths ==
    (pc = "done" /\ failNodes # {} /\ failEdges = {}
        /\ EveryNodeLabelled(graph) /\ AmpleFanOut)
        => /\ DOMAIN output \cap failNodes = {}
           /\ Reach(graph, Range(seeds), max_depth, failNodes) \subseteq DOMAIN output

-----------------------------------------------------------------------------
(* The node pool of the question assembler *)

\* A lemma is the sequence of its characters; translations are a set of
\* <<language code, lemma>> pairs with at most one lemma per code.
W_Dog == <<"d", "o", "g">>
W_Cat == <<"c", "a", "t">>
W_Canine == <<"c", "a", "n", "i", "n", "e">>
W_Feline == <<"f", "e", "l", "i", "n", "e">>
W_Animal == <<"a", "n", "i", "m", "a", "l">>
W_Entity == <<"e", "n", "t", "i", "t", "y">>
W_Tail == <<"t", "a", "i", "l">>
W_Car == <<"c", "a", "r">>
W_Bus == <<"b", "u", "s">>
W_Vehicle == <<"v", "e", "h", "i", "c", "l", "e">>
W_Wheel == <<"w", "h", "e", "e", "l">>
W_Thing == <<"t", "h", "i", "n", "g">>
W_Apple == <<"a", "p", "p", "l", "e">>
W_Pear == <<"p", "e", "a", "r">>
W_Plum == <<"p", "l", "u", "m">>
W_Cherry == <<"c", "h", "e", "r", "r", "y">>
W_Fruit == <<"f", "r", "u", "i", "t">>
W_Morello == <<"m", "o", "r", "e", "l", "l", "o">>
W_Banana == <<"b", "a", "n", "a", "n", "a">>
W_Apfel == <<"A", "p", "f", "e", "l">>
W_Birne == <<"B", "i", "r", "n", "e">>
W_Pflaume == <<"P", "f", "l", "a", "u", "m", "e">>
W_Kirsche == <<"K", "i", "r", "s", "c", "h", "e">>
W_Obst == <<"O", "b", "s", "t">>
W_Banane == <<"B", "a", "n", "a", "n", "e">>
W_Catalog == <<"c", "a", "t", "a", "l", "o", "g">>
W_Candle == <<"c", "a", "n", "d", "l", "e">>
W_Hund == <<"H", "u", "n", "d">>
W_Hunde == <<"H", "u", "n", "d", "e">>
W_Katze == <<"K", "a", "t", "z", "e">>
W_Katzen == <<"K", "a", "t", "z", "e", "n">>
W_Tier == <<"T", "i", "e", "r">>
W_Rute == <<"R", "u", "t", "e">>
W_Auto == <<"A", "u", "t", "o">>
W_Wagen == <<"W", "a", "g", "e", "n">>
W_Rad == <<"R", "a", "d">>

EnDe(en, de) == {<<"en", en>>, <<"de", de>>}

EnOnly(en) == {<<"en", en>>}

\* target_lang in x.get("translations", {})
HasTranslation(x, lang) == \E t \in x.translations : t[1] = lang

\* x["translations"][lang]["lemma"]
LemmaIn(x, lang) == (CHOOSE t \in x.translations : t[1] = lang)[2]

\* One item of a relation list as the pool file holds it; keyed tells whether
\* it carries a "synset_id" (rel_entry.get("synset_id") is None otherwise).
RelEntry(trans, keyed, id) ==
    [synset_id |-> IF keyed THEN id ELSE None, translations |-> trans[id]]

RelList(trans, keyed, ids) ==
    [j \in 1..Len(ids) |-> RelEntry(trans, keyed, ids[j])]

\* A pool: one entry per identifier of ids, relation lists given per
\* identifier.
MkPool(ids, trans, hy, ho, me, co, keyed) ==
    [i \in 1..Len(ids) |->
        [synset_id |-> ids[i],
         translations |-> trans[ids[i]],
         hypernyms |-> RelList(trans, keyed, hy[ids[i]]),
         hyponyms |-> RelList(trans, keyed, ho[ids[i]]),
         meronyms |-> RelList(trans, keyed, me[ids[i]]),
         cohyponyms |-> RelList(trans, keyed, co[ids[i]])]]

\* dog < canine < animal < entity (dog lists canine and animal), cat < feline
\* < animal, car < entity; tail is part of dog and cat. entity has no German
\* label.
AnimalTrans ==
    << EnDe(W_Dog, W_Hund), EnDe(W_Cat, W_Katze), EnDe(W_Canine, W_Hunde), EnDe(W_Feline, W_Katzen),
       EnDe(W_Animal, W_Tier), EnOnly(W_Entity), EnDe(W_Tail, W_Rute), EnDe(W_Car, W_Auto) >>

AnimalPool(keyed) ==
    MkPool(<<1, 2, 3, 4, 5, 8>>, AnimalTrans,
           << <<3, 5>>, <<4>>, <<5>>, <<5>>, <<6>>, <<>>, <<>>, <<6>> >>,
           << <<>>, <<>>, <<1>>, <<2>>, <<3, 4>>, <<>>, <<>>, <<>> >>,
           << <<7>>, <<7>>, <<>>, <<>>, <<>>, <<>>, <<>>, <<>> >>,
           << <<>>, <<>>, <<4>>, <<3>>, <<>>, <<>>, <<>>, <<>> >>,
           keyed)

\* car and bus are vehicles with a wheel; thing has no German label.
VehicleTrans ==
    << EnDe(W_Car, W_Auto), EnDe(W_Bus, W_Bus), EnDe(W_Vehicle, W_Wagen), EnDe(W_Wheel, W_Rad),
       EnOnly(W_Thing) >>

VehiclePool(keyed) ==
    MkPool(<<1, 2, 3>>, VehicleTrans,
           << <<3>>, <<3>>, <<5>>, <<>>, <<>> >>,
           << <<>>, <<>>, <<1, 2>>, <<>>, <<>> >>,
           << <<4>>, <<4>>, <<>>, <<>>, <<>> >>,
           << <<2>>, <<1>>, <<>>, <<>>, <<>> >>,
           keyed)

\* A pool with few labels: car (the motor car) and car (the railway car)
\* share their prompt word; vehicle and the railway car have no German label.
TinyTrans ==
    << EnDe(W_Wheel, W_Rad), EnDe(W_Car, W_Auto), EnOnly(W_Vehicle), EnOnly(W_Car) >>

TinyPool ==
    MkPool(<<1, 2, 4>>, TinyTrans,
           << <<>>, <<3>>, <<>>, <<3>> >>,
           << <<>>, <<>>, <<>>, <<>> >>,
           << <<>>, <<1>>, <<>>, <<1>> >>,
           << <<>>, <<4>>, <<>>, <<2>> >>,
           TRUE)

\* apple, pear, plum and banana are fruits. Each relation list is capped, so
\* apple lists the siblings pear, plum, cherry, pear lists plum, cherry,
\* morello, and banana is nobody's listed sibling. cherry and morello have the
\* same German label.
FruitTrans ==
    << EnDe(W_Apple, W_Apfel), EnDe(W_Pear, W_Birne), EnDe(W_Plum, W_Pflaume),
       EnDe(W_Cherry, W_Kirsche), EnDe(W_Fruit, W_Obst), EnDe(W_Morello, W_Kirsche),
       EnDe(W_Banana, W_Banane) >>

FruitPool ==
    MkPool(<<1, 2, 3, 7>>, FruitTrans,
           << <<5>>, <<5>>, <<5>>, <<>>, <<>>, <<>>, <<5>> >>,
           << <<>>, <<>>, <<>>, <<>>, <<>>, <<>>, <<>> >>,
           << <<>>, <<>>, <<>>, <<>>, <<>>, <<>>, <<>> >>,
           << <<2, 3, 4>>, <<3, 4, 6>>, <<1, 2>>, <<>>, <<>>, <<>>, <<1>> >>,
           TRUE)

\* Look-alike words: cat < feline and dog < canine, with the unrelated
\* entries catalog and candle; English labels only.
LookalikeTrans ==
    << EnOnly(W_Cat), EnOnly(W_Feline), EnOnly(W_Catalog), EnOnly(W_Candle),
       EnOnly(W_Dog), EnOnly(W_Canine) >>

LookalikePool ==
    MkPool(<<1, 3, 4, 5>>, LookalikeTrans,
           << <<2>>, <<>>, <<>>, <<>>, <<6>>, <<>> >>,
           << <<>>, <<>>, <<>>, <<>>, <<>>, <<>> >>,
           << <<>>, <<>>, <<>>, <<>>, <<>>, <<>> >>,
           << <<>>, <<>>, <<>>, <<>>, <<>>, <<>> >>,
           TRUE)

\* The pools a generator is built on: relation items with identifiers
\* (keyed) and as enrich_with_translations writes them (an "id", no
\* "synset_id").
Pools == {AnimalPool(TRUE), VehiclePool(TRUE), VehiclePool(FALSE), TinyPool, FruitPool}

\* The pools single calls of _create_single_question are observed on.
GeneratorPools == Pools \cup {LookalikePool}

Langs == {"en", "de"}

RelTypes == <<"hypernyms", "hyponyms", "meronyms", "cohyponyms">>

\* entry.get(rel_type, [])
Field(entry, rel_type) ==
    CASE rel_type = "hypernyms" -> entry.hypernyms
      [] rel_type = "hyponyms" -> entry.hyponyms
      [] rel_type = "meronyms" -> entry.meronyms
      [] rel_type = "cohyponyms" -> entry.cohyponyms

\* Every relation item of the pool d.
AllRelEntries(d) ==
    UNION {Range(Field(d[i], RelTypes[k])) : i \in DOMAIN d, k \in DOMAIN RelTypes}

\* _build_lemma_lookup: language code -> the lemmas of entries and relation
\* items in that language; a defaultdict, so only codes that occur are keys.
BuildLemmaLookup(d) ==
    LET items == {d[i] : i \in DOMAIN d} \cup AllRelEntries(d)
        pairs == UNION {x.translations : x \in items}
    IN  [lang \in {t[1] : t \in pairs} |-> {t[2] : t \in {u \in pairs : u[1] = lang}}]

\* self.lemma_lookup[lang]: a missing key reads as the empty set.
LookupGet(lookup, lang) == IF lang \in DOMAIN lookup THEN lookup[lang] ELSE {}

\* The lookup rebuilt with the key read as its only key.
LookupKeepingOnlyRead(lookup, lang) == [l \in {lang} |-> LookupGet(lookup, l)]

\* The defaultdict after that read: a missing key is inserted.
LookupTouch(lookup, lang) ==
    [l \in (DOMAIN lookup) \cup {lang} |-> LookupGet(lookup, l)]

\* self.synset_to_entry: the last entry of a synset_id wins.
SynsetToEntry(d) ==
    [sid \in {d[i].synset_id : i \in DOMAIN d} |->
        d[CHOOSE i \in DOMAIN d :
            /\ d[i].synset_id = sid
            /\ \A j \in DOMAIN d : d[j].synset_id = sid => j <= i]]

-----------------------------------------------------------------------------
(* Related-word lookups of QuestionGenerator *)

\* The lemmas in lang of the relation items of a list.
LemmasOf(items, lang) ==
    {LemmaIn(x, lang) : x \in {y \in Range(items) : HasTranslation(y, lang)}}

\* _get_distant_hypernyms: the hypernyms of those hypernyms that carry a
\* synset_id found in synset_to_entry.
GetDistantHypernyms(entry, target_lang) ==
    LET ste == SynsetToEntry(data)
        parents == {h \in Range(entry.hypernyms) :
                        h.synset_id # None /\ h.synset_id \in DOMAIN ste}
    IN  UNION {LemmasOf(ste[h.synset_id].hypernyms, target_lang) : h \in parents}

\* _get_shared_hypernym_synsets: the lemmas of the other entries that have a
\* hypernym among ours.
GetSharedHypernymSynsets(entry, target_lang) ==
    LET our_hypernyms == {h.synset_id : h \in {x \in Range(entry.hypernyms) :
                                                   x.synset_id # None}}
        others == {i \in DOMAIN data :
                      /\ data[i].synset_id # entry.synset_id
                      /\ \E oh \in Range(data[i].hypernyms) : oh.synset_id \in our_hypernyms
                      /\ HasTranslation(data[i], target_lang)}
    IN  {LemmaIn(data[i], target_lang) : i \in others}

\* _add_recursive_hypernyms / _add_recursive_hyponyms over the rest `items`
\* of an entry's list: an identifier already excluded is neither added nor
\* descended into.
RECURSIVE AddRecursive(_, _, _, _, _)
AddRecursive(rel_type, items, excluded_set, limit, current_depth) ==
    IF current_depth >= limit \/ items = <<>> THEN excluded_set
    ELSE LET sid == Head(items).synset_id
             ste == SynsetToEntry(data)
         IN  IF sid # None /\ sid \notin excluded_set
             THEN LET added == excluded_set \cup {sid}
                      below == IF sid \in DOMAIN ste
                               THEN AddRecursive(rel_type, Field(ste[sid], rel_type),
                                                 added, limit, current_depth + 1)
                               ELSE added
                  IN  AddRecursive(rel_type, Tail(items), below, limit, current_depth)
             ELSE AddRecursive(rel_type, Tail(items), excluded_set, limit,
                               current_depth)

HypernymExclusionDepth == 3

HyponymExclusionDepth == 2

\* _build_semantic_exclusion_set: synset ids (None included when a relation
\* item carries no synset_id).
BuildSemanticExclusionSet(entry) ==
    LET direct == {entry.synset_id}
                  \cup {r.synset_id : r \in UNION {Range(Field(entry, RelTypes[k])) :
                                                       k \in DOMAIN RelTypes}}
        up == AddRecursive("hypernyms", entry.hypernyms, direct,
                           HypernymExclusionDepth, 0)
        down == AddRecursive("hyponyms", entry.hyponyms, up, HyponymExclusionDepth, 0)
        our_hypernyms == {h.synset_id : h \in Range(entry.hypernyms)}
        sharing == {i \in DOMAIN data :
                       /\ data[i].synset_id # entry.synset_id
                       /\ \E oh \in Range(data[i].hypernyms) :
                              oh.synset_id \in our_hypernyms}
    IN  down \cup {data[i].synset_id : i \in sharing}

UpperCase == <<"A", "B", "C", "D", "E", "F", "G", "H", "I", "J", "K", "L", "M",
               "N", "O", "P", "Q", "R", "S", "T", "U", "V", "W", "X", "Y", "Z">>

LowerCase == <<"a", "b", "c", "d", "e", "f", "g", "h", "i", "j", "k", "l", "m",
               "n", "o", "p", "q", "r", "s", "t", "u", "v", "w", "x", "y", "z">>

\* str.lower()
Lower(w) ==
    [k \in DOMAIN w |->
        IF \E u \in DOMAIN UpperCase : UpperCase[u] = w[k]
        THEN LowerCase[CHOOSE u \in DOMAIN UpperCase : UpperCase[u] = w[k]]
        ELSE w[k]]

\* a in b, for strings
IsSubstring(a, b) ==
    \E k \in 0..Len(b) : k + Len(a) <= Len(b) /\ SubSeq(b, k + 1, k + Len(a)) = a

StemLength == 3

\* The same without the two substring tests.
SharesVocabularyPrefixOnly(target_entry, candidate_entry, lang) ==
    IF ~HasTranslation(target_entry, lang) \/ ~HasTranslation(candidate_entry, lang)
    THEN FALSE
    ELSE LET target_lemma == Lower(LemmaIn(target_entry, lang))
             candidate_lemma == Lower(LemmaIn(candidate_entry, lang))
         IN  /\ Len(target_lemma) > StemLength
             /\ Len(candidate_lemma) > StemLength
             /\ SubSeq(target_lemma, 1, StemLength) = SubSeq(candidate_lemma, 1, StemLength)

\* _shares_vocabulary_with_target
SharesVocabularyWithTarget(target_entry, candidate_entry, lang) ==
    IF ~HasTranslation(target_entry, lang) \/ ~HasTranslation(candidate_entry, lang)
    THEN FALSE
    ELSE LET target_lemma == Lower(LemmaIn(target_entry, lang))
             candidate_lemma == Lower(LemmaIn(candidate_entry, lang))
         IN  \/ IsSubstring(target_lemma, candidate_lemma)
             \/ IsSubstring(candidate_lemma, target_lemma)
             \/ /\ Len(target_lemma) > StemLength
                /\ Len(candidate_lemma) > StemLength
                /\ SubSeq(target_lemma, 1, StemLength) = SubSeq(candidate_lemma, 1, StemLength)

\* random.sample(population, k) as a set: every k-element subset.
SampleSets(S, k) == {T \in SUBSET S : Cardinality(T) = k}

Min(a, b) == IF a < b THEN a ELSE b

CrossDomainSampleSize == 50

CrossDomainFillSize == 20

\* _get_cross_domain_words: the word sets it can return. candidate_words holds
\* one word per admitted entry; more than sample_size of them are sampled.
GetCrossDomainWords(entry, target_lang, sample_size) ==
    LET excluded_synsets == BuildSemanticExclusionSet(entry)
        candidates == {i \in DOMAIN data :
                          /\ data[i].synset_id \notin excluded_synsets
                          /\ ~SharesVocabularyWithTarget(entry, data[i], target_lang)
                          /\ HasTranslation(data[i], target_lang)}
        words(I) == {LemmaIn(data[i], target_lang) : i \in I}
    IN  IF Cardinality(candidates) > sample_size
        THEN {words(I) : I \in SampleSets(candidates, sample_size)}
        ELSE {words(candidates)}

-----------------------------------------------------------------------------
(* Distractor strategies: each yields the set of distractor sets that the
   random draws can produce *)

\* The closing branch of every strategy: enough words are sampled down to
\* n_choices - 1, too few are topped up by a sample of all_candidates.
SampleOrTopUp(available, all_candidates) ==
    IF Cardinality(available) >= n_choices - 1
    THEN SampleSets(available, n_choices - 1)
    ELSE LET remaining == n_choices - 1 - Cardinality(available)
         IN  {available \cup additional :
                 additional \in SampleSets(all_candidates,
                                           Min(remaining, Cardinality(all_candidates)))}

\* The loop of _finalize_distractors.
RECURSIVE FinalizeFill(_, _, _)
FinalizeFill(distractors, correct_lemma, all_candidates) ==
    IF Cardinality(distractors) < n_choices - 1
    THEN LET remaining == (all_candidates \ distractors) \ {correct_lemma}
         IN  IF remaining # {}
             THEN UNION {FinalizeFill(distractors \cup {w}, correct_lemma, all_candidates) :
                            w \in remaining}
             ELSE {distractors}
    ELSE {distractors}

\* The same without distractors.discard(correct_lemma).
FinalizeKeepingCorrect(distractors, correct_lemma, all_candidates) ==
    FinalizeFill(distractors, correct_lemma, all_candidates)

\* _finalize_distractors
FinalizeDistractors(distractors, correct_lemma, all_candidates) ==
    FinalizeFill(distractors \ {correct_lemma}, correct_lemma, all_candidates)

Finalized(drawn, correct_lemma, all_candidates) ==
    UNION {FinalizeDistractors(distractors, correct_lemma, all_candidates) :
              distractors \in drawn}

\* _random_cross_domain_distractors
RandomCrossDomainDistractors(correct_lemma, all_candidates, target_lang, entry) ==
    Finalized(UNION {SampleOrTopUp(cross_domain_words, all_candidates) :
                        cross_domain_words \in
                            GetCrossDomainWords(entry, target_lang, CrossDomainSampleSize)},
              correct_lemma, all_candidates)

\* _distant_hypernym_distractors
DistantHypernymDistractors(correct_lemma, all_candidates, target_lang, entry) ==
    LET distant_hypernyms == GetDistantHypernyms(entry, target_lang)
    IN  Finalized(IF Cardinality(distant_hypernyms) >= n_choices - 1
                  THEN SampleSets(distant_hypernyms, n_choices - 1)
                  ELSE UNION {SampleOrTopUp(distant_hypernyms \cup cross_domain,
                                            all_candidates) :
                                 cross_domain \in
                                     GetCrossDomainWords(entry, target_lang,
                                                         CrossDomainFillSize)},
                  correct_lemma, all_candidates)

\* _direct_relation_distractors
DirectRelationDistractors(correct_lemma, all_candidates, target_lang, entry) ==
    LET direct_relations == LemmasOf(entry.hypernyms, target_lang)
                            \cup LemmasOf(entry.hyponyms, target_lang)
    IN  Finalized(IF Cardinality(direct_relations) >= n_choices - 1
                  THEN SampleSets(direct_relations, n_choices - 1)
                  ELSE SampleOrTopUp(direct_relations
                                     \cup GetDistantHypernyms(entry, target_lang),
                                     all_candidates),
                  correct_lemma, all_candidates)

\* The same with the first sufficiency test strict (> instead of >=).
CohyponymDistractorsStrict(correct_lemma, all_candidates, target_lang, entry) ==
    LET cohyponyms == LemmasOf(entry.cohyponyms, target_lang)
        available == cohyponyms \cup GetSharedHypernymSynsets(entry, target_lang)
        direct_relations == LemmasOf(entry.hypernyms, target_lang)
    IN  Finalized(IF Cardinality(cohyponyms) > n_choices - 1
                  THEN SampleSets(cohyponyms, n_choices - 1)
                  ELSE IF Cardinality(available) >= n_choices - 1
                  THEN SampleSets(available, n_choices - 1)
                  ELSE SampleOrTopUp(available \cup direct_relations, all_candidates),
                  correct_lemma, all_candidates)

\* _cohyponym_distractors
CohyponymDistractors(correct_lemma, all_candidates, target_lang, entry) ==
    LET cohyponyms == LemmasOf(entry.cohyponyms, target_lang)
        available == cohyponyms \cup GetSharedHypernymSynsets(entry, target_lang)
        direct_relations == LemmasOf(entry.hypernyms, target_lang)
    IN  Finalized(IF Cardinality(cohyponyms) >= n_choices - 1
                  THEN SampleSets(cohyponyms, n_choices - 1)
                  ELSE IF Cardinality(available) >= n_choices - 1
                  THEN SampleSets(available, n_choices - 1)
                  ELSE SampleOrTopUp(available \cup direct_relations, all_candidates),
                  correct_lemma, all_candidates)

\* _close_relation_distractors
CloseRelationDistractors(correct_lemma, all_candidates, target_lang, entry) ==
    LET close_relations == LemmasOf(entry.meronyms, target_lang)
                           \cup GetSharedHypernymSynsets(entry, target_lang)
        cohyponyms == LemmasOf(entry.cohyponyms, target_lang)
    IN  Finalized(IF Cardinality(close_relations) >= n_choices - 1
                  THEN SampleSets(close_relations, n_choices - 1)
                  ELSE SampleOrTopUp(close_relations \cup cohyponyms, all_candidates),
                  correct_lemma, all_candidates)

Difficulties == 1..5

\* _generate_distractors: the distractor sets and the distractor_type.
GenerateDistractors(correct_lemma, all_candidates, target_lang, entry, difficulty) ==
    CASE difficulty = 1 ->
            [sets |-> RandomCrossDomainDistractors(correct_lemma, all_candidates,
                                                   target_lang, entry),
             type |-> "cross_domain_random"]
      [] difficulty = 2 ->
            [sets |-> DistantHypernymDistractors(correct_lemma, all_candidates,
                                                 target_lang, entry),
             type |-> "distant_hypernyms"]
      [] difficulty = 3 ->
            [sets |-> DirectRelationDistractors(correct_lemma, all_candidates,
                                                target_lang, entry),
             type |-> "direct_relations"]
      [] difficulty = 4 ->
            [sets |-> CohyponymDistractors(correct_lemma, all_candidates,
                                           target_lang, entry),
             type |-> "cohyponyms"]
      [] difficulty = 5 ->
            [sets |-> CloseRelationDistractors(correct_lemma, all_candidates,
                                               target_lang, entry),
             type |-> "close_relations"]

-----------------------------------------------------------------------------
(* _create_single_question *)

DefaultMinDistractors == 3

DefaultNChoices == 4

MaxMinDistractors == 3

MaxChoices == 4

\* main's task list: relation_field -> task_type.
TaskType(field) == IF field = "hypernyms" THEN "hypernymy" ELSE "meronymy"

RelationFields == {"hypernyms", "meronyms"}

\* _get_lang_info over the two codes of the model: (name, resource level).
GetLangInfo(lang_code) ==
    IF lang_code = "en" THEN <<"English", "high_resource">>
    ELSE IF lang_code = "de" THEN <<"German", "high_resource">>
    ELSE <<"None", "None">>

RelationPhrase(task_type) ==
    IF task_type = "hypernymy" THEN "a hypernym (broader category)"
    ELSE IF task_type = "meronymy" THEN "a meronym (part, component, or member)"
    ELSE "a semantic relation"

\* _create_prompt_text: the parts the f-string joins.
CreatePromptText(task_type, from_code, to_code, prompt_word) ==
    <<RelationPhrase(task_type), GetLangInfo(from_code)[1], prompt_word,
      GetLangInfo(to_code)[1]>>

\* list(distractors): some order of the set; the shuffle that follows makes
\* every order of the options possible.
AsList(S) ==
    CHOOSE l \in [1..Cardinality(S) -> S] : {l[i] : i \in DOMAIN l} = S

\* random.shuffle(options): every rearrangement of the list.
ShuffleResults(list) ==
    {[i \in DOMAIN list |-> list[p[i]]] : p \in Permutations(DOMAIN list)}

\* The position of the last option, whatever it holds.
LastIndex(options, correct_lemma) == Len(options) - 1

\* options.index(correct_lemma), counted from 0.
AnswerIndex(options, correct_lemma) ==
    (CHOOSE i \in DOMAIN options :
        /\ options[i] = correct_lemma
        /\ \A j \in 1..(i - 1) : options[j] # correct_lemma) - 1

MkQuestion(entry, from_code, to_code, task_type, difficulty, id, mode, options, correct_lemma, distractor_type) ==
    [id |-> <<task_type, id, from_code, to_code, difficulty>>,
     prompt |-> CreatePromptText(task_type, from_code, to_code,
                                 LemmaIn(entry, from_code)),
     options |-> options,
     answer_index |-> AnswerIndex(options, correct_lemma),
     metadata |-> [resource_pair |-> <<GetLangInfo(from_code)[2],
                                       GetLangInfo(to_code)[2]>>,
                   prompt_lang |-> "en",
                   from_lang |-> from_code,
                   to_lang |-> to_code,
                   difficulty |-> difficulty,
                   distractor_type |-> distractor_type,
                   synset_id |-> entry.synset_id,
                   multilingual_mode |-> mode]]

Outcome(q, rel, lookup) == [question |-> q, relation_entry |-> rel, lookup |-> lookup]

\* What one call can return, with the related entry it picked and
\* lemma_lookup as the call leaves it. A KeyError or IndexError inside the
\* try block ends in the except clause: None is returned.
SingleQuestionOutcomes(entry, valid_related_entries, from_code, to_code, task_type, difficulty, id, mode) ==
    IF ~HasTranslation(entry, from_code) \/ valid_related_entries = <<>>
    THEN {Outcome(NoQuestion, NoEntry, lemma_lookup)}
    ELSE UNION {
        IF ~HasTranslation(rel, to_code)
        THEN {Outcome(NoQuestion, rel, lemma_lookup)}
        ELSE LET correct_lemma == LemmaIn(rel, to_code)
                 all_candidates == LookupGet(lemma_lookup, to_code) \ {correct_lemma}
                 lookup == LookupTouch(lemma_lookup, to_code)
                 generated == GenerateDistractors(correct_lemma, all_candidates,
                                                  to_code, entry, difficulty)
             IN  IF Cardinality(all_candidates) < min_distractors
                 THEN {Outcome(NoQuestion, rel, lookup)}
                 ELSE {Outcome(MkQuestion(entry, from_code, to_code, task_type,
                                          difficulty, id, mode, options,
                                          correct_lemma, generated.type),
                               rel, lookup) :
                          options \in UNION {
                              ShuffleResults(Append(AsList(distractors), correct_lemma)) :
                                  distractors \in generated.sets}}
        : rel \in Range(valid_related_entries)}

\* [rel for rel in entry.get(relation_field, []) if to_code in translations]
RECURSIVE WithTranslation(_, _)
WithTranslation(items, to_code) ==
    IF items = <<>> THEN <<>>
    ELSE IF HasTranslation(Head(items), to_code)
    THEN <<Head(items)>> \o WithTranslation(Tail(items), to_code)
    ELSE WithTranslation(Tail(items), to_code)

Modes == {"monolingual_en", "en_to_high", "all"}

\* QuestionGenerator(data, min_distractors, n_choices) is constructed on a
\* pool.
NewGenerator ==
    /\ data \in GeneratorPools
    /\ min_distractors \in 0..MaxMinDistractors
    /\ n_choices \in 2..MaxChoices
    /\ lemma_lookup = BuildLemmaLookup(data)

QInit ==
    /\ NoCrawl /\ NoBalancedCall /\ NoFilter /\ NoAnalogy /\ NoGloss
    /\ NewGenerator
    /\ call = NoCall
    /\ relation_entry = NoEntry
    /\ question = NoQuestion
    /\ qpc = "ready"

\* One call of _create_single_question with arguments as
\* _generate_balanced_questions passes them: a prompt entry that has the
\* source label, its related entries that have a target label (at least
\* one), any tier.
CreateSingleQuestion ==
    /\ qpc = "ready"
    /\ \E i \in DOMAIN data, from_code \in Langs, to_code \in Langs,
          field \in RelationFields, difficulty \in Difficulties :
          LET entry == data[i]
              valid_related_entries == WithTranslation(Field(entry, field), to_code)
          IN  /\ HasTranslation(entry, from_code)
              /\ valid_related_entries # <<>>
              /\ ~(from_code = to_code /\ from_code # "en")
              /\ call' = [entry |-> [synset_id |-> entry.synset_id,
                                     translations |-> entry.translations],
                          valid_related_entries |-> valid_related_entries,
                          from_code |-> from_code, to_code |-> to_code,
                          task_type |-> TaskType(field), difficulty |-> difficulty,
                          qid |-> 0]
              /\ \E o \in SingleQuestionOutcomes(entry, valid_related_entries,
                                                 from_code, to_code, TaskType(field),
                                                 difficulty, 0, "all") :
                    /\ question' = o.question
                    /\ relation_entry' = o.relation_entry
                    /\ lemma_lookup' = o.lookup
    /\ qpc' = "returned"
    /\ UNCHANGED <<data, min_distractors, n_choices>>
    /\ UNCHANGED <<crawlVars, balVars, filterVars, analogyVars, glossVars>>

\* The caller has taken the result.
ReturnToCaller ==
    /\ qpc = "returned"
    /\ call' = NoCall
    /\ relation_entry' = NoEntry
    /\ question' = NoQuestion
    /\ qpc' = "ready"
    /\ UNCHANGED <<data, min_distractors, n_choices, lemma_lookup>>
    /\ UNCHANGED <<crawlVars, balVars, filterVars, analogyVars, glossVars>>

NextQ == CreateSingleQuestion \/ ReturnToCaller

SpecQ == QInit /\ [][NextQ]_vars

-----------------------------------------------------------------------------
(* Claims about _create_single_question (checked under SpecQ) *)

\* A call has returned a Question.
Returned == qpc = "returned" /\ question # NoQuestion

\* The target-language label of the related entry the call picked.
CorrectLabel == LemmaIn(relation_entry, call.to_code)

Occurrences(seq, x) == Cardinality({i \in DOMAIN seq : seq[i] = x})

\* C1: in every returned Question, for every pool, language pair, relation
\* field and tier, the correct label occurs exactly once among the options
\* (so no distractor equals it) and the options are pairwise distinct.
C1_CorrectLabelOnceOptionsDistinct ==
    Returned =>
        /\ Occurrences(question.options, CorrectLabel) = 1
        /\ \A i, j \in DOMAIN question.options :
              i # j => question.options[i] # question.options[j]

\* C1 witness: a tier-3 hypernymy question with a full option list was
\* returned; the strategy drew from the direct hypernyms, the correct label
\* among them.
C1_Witness ==
    /\ Returned
    /\ call.task_type = "hypernymy"
    /\ call.difficulty = 3
    /\ n_choices = 4
    /\ Len(question.options) = 4
    /\ Occurrences(question.options, CorrectLabel) = 1

\* C2: for every configuration (min_distractors >= 0, n_choices >= 2) and
\* pool, a returned Question has exactly n_choices options; an attempt that
\* cannot gather n_choices - 1 distractors returns no record.
C2_ExactlyNChoicesOptions ==
    Returned => Len(question.options) = n_choices

\* C3: in every returned Question answer_index is a position of options and
\* the option there is the target-language label of the related entry that
\* was picked from the prompt entry's relation field, whatever the shuffle.
C3_AnswerIndexPointsAtCorrectLabel ==
    Returned =>
        /\ 0 <= question.answer_index
        /\ question.answer_index < Len(question.options)
        /\ relation_entry \in Range(call.valid_related_entries)
        /\ question.options[question.answer_index + 1] = CorrectLabel

\* C3 witness: the shuffle left the correct label of a four-option question
\* in the first position, the related entry being one of several.
C3_Witness ==
    /\ Returned
    /\ Len(question.options) = 4
    /\ question.answer_index = 0
    /\ question.options[1] = CorrectLabel
    /\ Len(call.valid_related_entries) >= 2

-----------------------------------------------------------------------------
(* _collect_valid_entries and _generate_balanced_questions *)

MaxTarget == 6

\* _get_language_pairs with LANGUAGE_CONFIG cut down to the codes en and de
\* (both high_resource).
GetLanguagePairs(mode) ==
    IF mode = "monolingual_en"
    THEN [from_languages |-> <<"en">>, target_languages |-> <<"en">>]
    ELSE IF mode = "en_to_high"
    THEN [from_languages |-> <<"en">>, target_languages |-> <<"de">>]
    ELSE [from_languages |-> <<"en", "de">>, target_languages |-> <<"en", "de">>]

\* Whether _collect_valid_entries appends entry to valid_entries[from_to].
IsValidEntry(entry, field, from_code, to_code) ==
    /\ Field(entry, field) # <<>>
    /\ HasTranslation(entry, from_code)
    /\ ~(from_code = to_code /\ from_code # "en")
    /\ WithTranslation(Field(entry, field), to_code) # <<>>

\* valid_entries[from_to] in the order of self.data, from entry i on.
RECURSIVE EntriesOfPair(_, _, _, _)
EntriesOfPair(field, from_code, to_code, i) ==
    IF i > Len(data) THEN <<>>
    ELSE IF IsValidEntry(data[i], field, from_code, to_code)
    THEN << <<data[i], WithTranslation(Field(data[i], field), to_code)>> >>
         \o EntriesOfPair(field, from_code, to_code, i + 1)
    ELSE EntriesOfPair(field, from_code, to_code, i + 1)

\* The keys of valid_entries in insertion order: the nested loops over
\* self.data, from_languages and target_languages, flattened into steps.
RECURSIVE PairKeys(_, _, _, _)
PairKeys(field, langs, step, keys) ==
    LET nf == Len(langs.from_languages)
        nt == Len(langs.target_languages)
        i == (step \div (nf * nt)) + 1
        from_code == langs.from_languages[((step \div nt) % nf) + 1]
        to_code == langs.target_languages[(step % nt) + 1]
        key == <<from_code, to_code>>
    IN  IF step >= Len(data) * nf * nt THEN keys
        ELSE IF /\ IsValidEntry(data[i], field, from_code, to_code)
                /\ \A k \in DOMAIN keys : keys[k] # key
        THEN PairKeys(field, langs, step + 1, Append(keys, key))
        ELSE PairKeys(field, langs, step + 1, keys)

\* _collect_valid_entries
CollectValidEntries(field, from_languages, target_languages) ==
    LET keys == PairKeys(field, [from_languages |-> from_languages,
                                 target_languages |-> target_languages], 0, <<>>)
    IN  [k \in DOMAIN keys |->
            [from_code |-> keys[k][1], to_code |-> keys[k][2],
             entries |-> EntriesOfPair(field, keys[k][1], keys[k][2], 1)]]

NumDifficulties == Cardinality(Difficulties)

\* The quota with the extra question handed to one tier more.
TargetForDifficultyInclusive(difficulty, target) ==
    (target \div NumDifficulties)
    + (IF difficulty <= (target % NumDifficulties) + 1 THEN 1 ELSE 0)

\* target_for_difficulty
TargetForDifficulty(difficulty, target) ==
    (target \div NumDifficulties)
    + (IF difficulty <= target % NumDifficulties THEN 1 ELSE 0)

\* A lookup of used_source_words that never finds the word.
NeverUsed(source_word, used) == FALSE

\* source_word in used_source_words
WordUsed(source_word, used) == source_word \in used

\* What the batch keeps of a Question: everything but the option list and
\* the answer index, which SpecQ covers.
Emitted(q) == [id |-> q.id, prompt |-> q.prompt, metadata |-> q.metadata]

\* generate_task has collected valid_entries and calls
\* _generate_balanced_questions.
\* The configurations of the generator that runs batches: the defaults of
\* __init__ and the smallest one.
BatchConfigurations == {<<DefaultMinDistractors, DefaultNChoices>>, <<0, 2>>}

\* The pools and modes batches are run on: the small pools in every mode,
\* the large ones in the modes that have a single language pair.
BatchSetups ==
    ((Pools \ {AnimalPool(TRUE), FruitPool}) \X Modes)
    \cup ({AnimalPool(TRUE), FruitPool} \X {"monolingual_en", "en_to_high"})

BalInit ==
    /\ NoCrawl /\ NoSingleCall /\ NoFilter /\ NoAnalogy /\ NoGloss
    /\ \E b \in BatchSetups : data = b[1] /\ multilingual_mode = b[2]
    /\ \E c \in BatchConfigurations : min_distractors = c[1] /\ n_choices = c[2]
    /\ lemma_lookup = BuildLemmaLookup(data)
    /\ relation_field \in RelationFields
    /\ target_questions_per_pair \in 0..MaxTarget
    /\ valid_entries = CollectValidEntries(relation_field,
                           GetLanguagePairs(multilingual_mode).from_languages,
                           GetLanguagePairs(multilingual_mode).target_languages)
    /\ pair_idx = 1
    /\ NoPairLocals
    /\ questions = <<>>
    /\ qid = 0
    /\ bpc = "pairs"

\* The next language pair: its entries are shuffled, its locals reset.
StartPair ==
    /\ bpc = "pairs"
    /\ pair_idx <= Len(valid_entries)
    /\ entries' \in ShuffleResults(valid_entries[pair_idx].entries)
    /\ used_source_words' = {}
    /\ lang_pair_questions' = <<>>
    /\ difficulty_enum' = 1
    /\ questions_generated' = 0
    /\ entry_idx' = 0
    /\ bpc' = "while"
    /\ UNCHANGED <<multilingual_mode, relation_field, target_questions_per_pair,
                   valid_entries, pair_idx, questions, qid>>
    /\ UNCHANGED <<crawlVars, genVars, filterVars, analogyVars, glossVars>>

\* The condition of the while loop.
MoreWanted ==
    /\ questions_generated < TargetForDifficulty(difficulty_enum,
                                                 target_questions_per_pair)
    /\ entry_idx < Len(entries)

\* One iteration of the while loop: a used prompt word is skipped, otherwise
\* _create_single_question is attempted and a Question is kept.
WhileIteration ==
    /\ bpc = "while"
    /\ MoreWanted
    /\ LET entry == entries[entry_idx + 1][1]
           valid_related_entries == entries[entry_idx + 1][2]
           from_code == valid_entries[pair_idx].from_code
           to_code == valid_entries[pair_idx].to_code
           source_word == LemmaIn(entry, from_code)
       IN  IF WordUsed(source_word, used_source_words)
           THEN UNCHANGED <<lemma_lookup, lang_pair_questions, used_source_words,
                            qid, questions_generated>>
           ELSE \E o \in {Outcome(Emitted(r.question), r.relation_entry, r.lookup) :
                              r \in SingleQuestionOutcomes(entry, valid_related_entries,
                                        from_code, to_code, TaskType(relation_field),
                                        difficulty_enum, qid, multilingual_mode)} :
                    /\ lemma_lookup' = o.lookup
                    /\ IF o.question # Emitted(NoQuestion)
                       THEN /\ lang_pair_questions' =
                                   Append(lang_pair_questions, o.question)
                            /\ used_source_words' = used_source_words \cup {source_word}
                            /\ qid' = qid + 1
                            /\ questions_generated' = questions_generated + 1
                       ELSE UNCHANGED <<lang_pair_questions, used_source_words, qid,
                                        questions_generated>>
    /\ entry_idx' = entry_idx + 1
    /\ UNCHANGED <<multilingual_mode, relation_field, target_questions_per_pair,
                   valid_entries, pair_idx, entries, questions, difficulty_enum, bpc>>
    /\ UNCHANGED <<data, min_distractors, n_choices, call, relation_entry, question,
                   qpc>>
    /\ UNCHANGED <<crawlVars, filterVars, analogyVars, glossVars>>

\* The while loop of a tier is over: the next tier starts from the first
\* entry.
NextDifficulty ==
    /\ bpc = "while"
    /\ ~MoreWanted
    /\ difficulty_enum < NumDifficulties
    /\ difficulty_enum' = difficulty_enum + 1
    /\ questions_generated' = 0
    /\ entry_idx' = 0
    /\ UNCHANGED <<multilingual_mode, relation_field, target_questions_per_pair,
                   valid_entries, pair_idx, entries, used_source_words,
                   lang_pair_questions, questions, qid, bpc>>
    /\ UNCHANGED <<crawlVars, genVars, filterVars, analogyVars, glossVars>>

\* The last tier is over: questions.extend(lang_pair_questions).
FinishPair ==
    /\ bpc = "while"
    /\ ~MoreWanted
    /\ difficulty_enum = NumDifficulties
    /\ questions' = questions \o lang_pair_questions
    /\ pair_idx' = pair_idx + 1
    /\ entries' = <<>>
    /\ used_source_words' = {}
    /\ lang_pair_questions' = <<>>
    /\ difficulty_enum' = 0
    /\ questions_generated' = 0
    /\ entry_idx' = 0
    /\ bpc' = "pairs"
    /\ UNCHANGED <<multilingual_mode, relation_field, target_questions_per_pair,
                   valid_entries, qid>>
    /\ UNCHANGED <<crawlVars, genVars, filterVars, analogyVars, glossVars>>

\* return questions
ReturnQuestions ==
    /\ bpc = "pairs"
    /\ pair_idx > Len(valid_entries)
    /\ bpc' = "returned"
    /\ UNCHANGED <<multilingual_mode, relation_field, target_questions_per_pair,
                   valid_entries, pair_idx, entries, used_source_words,
                   lang_pair_questions, questions, difficulty_enum,
                   questions_generated, entry_idx, qid>>
    /\ UNCHANGED <<crawlVars, genVars, filterVars, analogyVars, glossVars>>

NextBal == StartPair \/ WhileIteration \/ NextDifficulty \/ FinishPair \/ ReturnQuestions

SpecBal == BalInit /\ [][NextBal]_vars

-----------------------------------------------------------------------------
(* Claims about _generate_balanced_questions (checked under SpecBal) *)

\* Every question emitted so far: the finished pairs and the running one.
AllEmitted == questions \o lang_pair_questions

\* The prompt word of an emitted question.
PromptWord(q) == q.prompt[3]

\* The emitted questions of the language pair from_code -> to_code.
BatchOf(from_code, to_code) ==
    {i \in DOMAIN AllEmitted :
        /\ AllEmitted[i].metadata.from_lang = from_code
        /\ AllEmitted[i].metadata.to_lang = to_code}

\* C9: within the batch of one language pair no two emitted questions, of the
\* same tier or of different tiers, have the same prompt word, also when
\* several pool entries carry that word.
C9_NoPromptWordTwiceInPair ==
    \A p \in DOMAIN valid_entries :
        \A i, j \in BatchOf(valid_entries[p].from_code, valid_entries[p].to_code) :
            i # j => PromptWord(AllEmitted[i]) # PromptWord(AllEmitted[j])

\* C9 witness: a finished call asked for two or more questions per pair; two
\* entries of a pair carry the same prompt word and exactly one question with
\* that word was emitted for the pair.
C9_Witness ==
    /\ bpc = "returned"
    /\ target_questions_per_pair >= 2
    /\ \E p \in DOMAIN valid_entries :
          LET pair == valid_entries[p]
              word(k) == LemmaIn(pair.entries[k][1], pair.from_code)
          IN  \E a, b \in DOMAIN pair.entries :
                 /\ a # b
                 /\ word(a) = word(b)
                 /\ Cardinality({i \in BatchOf(pair.from_code, pair.to_code) :
                                    PromptWord(AllEmitted[i]) = word(a)}) = 1

\* The quota of tier k as the claim states it.
ClaimedQuota(k, T) == (T \div 5) + (IF k <= T % 5 THEN 1 ELSE 0)

CountAt(from_code, to_code, k) ==
    Cardinality({i \in BatchOf(from_code, to_code) :
                    AllEmitted[i].metadata.difficulty = k})

\* An attempt on this entry can return no record: some related entry leaves
\* fewer than min_distractors other labels of the target language.
CanFail(entry_pair, to_code) ==
    \E rel \in Range(entry_pair[2]) :
        Cardinality(LookupGet(lemma_lookup, to_code) \ {LemmaIn(rel, to_code)})
            < min_distractors

\* The pair has at least T entries with pairwise distinct prompt words whose
\* attempts all succeed.
EnoughEntries(pair) ==
    Cardinality({LemmaIn(e[1], pair.from_code) :
                    e \in {x \in Range(pair.entries) : ~CanFail(x, pair.to_code)}})
        >= target_questions_per_pair

\* C10: for every T >= 0 and every language pair at most T records are
\* emitted for the pair and at most floor(T/5) + (1 if k <= T mod 5) at tier
\* k; a finished pair with at least T entries of distinct prompt words whose
\* attempts all succeed has exactly that quota at every tier.
C10_TierQuotas ==
    \A p \in DOMAIN valid_entries :
        LET pair == valid_entries[p]
        IN  /\ Cardinality(BatchOf(pair.from_code, pair.to_code))
                  <= target_questions_per_pair
            /\ \A k \in Difficulties :
                  CountAt(pair.from_code, pair.to_code, k)
                      <= ClaimedQuota(k, target_questions_per_pair)
            /\ (p < pair_idx /\ EnoughEntries(pair)) =>
                  \A k \in Difficulties :
                      CountAt(pair.from_code, pair.to_code, k)
                          = ClaimedQuota(k, target_questions_per_pair)

\* C10 witness: a finished call with T = 6 on a pair with enough entries:
\* two questions at tier 1 and one at each other tier.
C10_Witness ==
    /\ bpc = "returned"
    /\ target_questions_per_pair = 6
    /\ \E p \in DOMAIN valid_entries :
          /\ EnoughEntries(valid_entries[p])
          /\ CountAt(valid_entries[p].from_code, valid_entries[p].to_code, 1) = 2
          /\ \A k \in 2..5 :
                CountAt(valid_entries[p].from_code, valid_entries[p].to_code, k) = 1

\* The pool entry an emitted question was asked about.
PromptEntry(q) == SynsetToEntry(data)[q.metadata.synset_id]

\* C11: no question is emitted for a language pair whose target language the
\* prompt entry has no label in, whatever labels its related entries have.
C11_NoRecordWithoutTargetLabel ==
    \A i \in DOMAIN AllEmitted :
        HasTranslation(PromptEntry(AllEmitted[i]), AllEmitted[i].metadata.to_lang)

-----------------------------------------------------------------------------
(* Further claims about the crawler (checked under Spec) *)

\* n1's only neighbours are one broader term n2 and one narrower term n3,
\* all three labelled.
OneUpOneDown(g, n1, n2, n3) ==
    /\ Cardinality({n1, n2, n3}) = 3
    /\ g.hyper[n1] = <<n2>>
    /\ g.hypo[n1] = <<n3>>
    /\ Neighbours(g, n1, {}) = {n2, n3}
    /\ \A n \in {n1, n2, n3} : g.lemma[n] # NA

\* C12: for the seed list [n1] on a graph where n1 has exactly one broader
\* term n2 and one narrower term n3, all labelled, process_file with
\* max_depth = 1 and max_items = 10 outputs exactly n1, n2 and n3, each with
\* its own label.
C12_OneUpOneDownScenario ==
    \A n1, n2, n3 \in Nodes :
        (/\ pc = "done"
         /\ seeds = <<n1>>
         /\ OneUpOneDown(graph, n1, n2, n3)
         /\ max_depth = 1
         /\ max_items = 10
         /\ NoFailures)
            => output = [n \in {n1, n2, n3} |-> graph.lemma[n]]

\* C12 witness: the scenario has run on the star graph, whose n2 has a
\* broader term of its own that stays outside the output.
C12_Witness ==
    /\ pc = "done"
    /\ seeds = <<1>>
    /\ OneUpOneDown(graph, 1, 2, 3)
    /\ graph.hyper[2] = <<4>>
    /\ max_depth = 1
    /\ max_items = 10
    /\ NoFailures
    /\ DOMAIN output = {1, 2, 3}

-----------------------------------------------------------------------------
(* Further claims about _create_single_question (checked under SpecQ) *)

\* The pool entry the returned call was made for.
CalledEntry == SynsetToEntry(data)[call.entry.synset_id]

\* The labels of the prompt entry's sibling terms in the target language.
SiblingLabels == LemmasOf(CalledEntry.cohyponyms, call.to_code)

\* The distractors of the returned question.
Distractors ==
    {question.options[i] :
        i \in DOMAIN question.options \ {question.answer_index + 1}}

\* A tier-4 question was returned under min_distractors = 3, n_choices = 4
\* for a prompt entry with exactly 3 sibling terms, each labelled in the
\* target language.
ThreeSiblingsTierFour ==
    /\ Returned
    /\ call.difficulty = 4
    /\ min_distractors = 3
    /\ n_choices = 4
    /\ Len(CalledEntry.cohyponyms) = 3
    /\ \A i \in DOMAIN CalledEntry.cohyponyms :
          HasTranslation(CalledEntry.cohyponyms[i], call.to_code)

\* C13 as claimed: in that case all 3 distractors are labels of the 3 sibling
\* terms, no fallback supplying any.
C13_AllDistractorsAreSiblings ==
    ThreeSiblingsTierFour =>
        /\ Cardinality(Distractors) = 3
        /\ Distractors \subseteq SiblingLabels

\* C13 amended: the same when the 3 sibling labels are pairwise distinct and
\* none of them is the correct label.
C13_DistinctSiblingsAreTheDistractors ==
    (ThreeSiblingsTierFour /\ Cardinality(SiblingLabels \ {CorrectLabel}) = 3) =>
        /\ Cardinality(Distractors) = 3
        /\ Distractors = SiblingLabels

\* C13 witness: such a question was returned for a prompt entry whose broader
\* term has a further narrower term in the pool that is not among the 3
\* listed siblings.
C13_Witness ==
    /\ ThreeSiblingsTierFour
    /\ Cardinality(SiblingLabels \ {CorrectLabel}) = 3
    /\ GetSharedHypernymSynsets(CalledEntry, call.to_code) \ SiblingLabels # {}
    /\ Distractors = SiblingLabels

-----------------------------------------------------------------------------
(* Claims about repeated runs and the caches (checked under Spec) *)

\* C14: a second call of process_file in the same process, with the same
\* seed list, max_depth and max_items on the unchanged graph, writes the same
\* set of identifiers as the first, although it runs on the caches the first
\* call filled.
C14_SecondRunSameIdentifiers ==
    [][(pc = "seeds" /\ pc' = "done" /\ run >= 2)
          => DOMAIN output' = DOMAIN output]_vars

\* C14 witness: a second call has finished after discovering at least three
\* nodes, every one of them answered from the caches.
C14_Witness ==
    /\ pc = "done"
    /\ run = 2
    /\ max_depth >= 1
    /\ Cardinality(DOMAIN output) >= 3
    /\ DOMAIN output \subseteq synset_cache

\* C15: an entry of the node cache or of the label cache is written only
\* while its key is absent and is never overwritten or removed afterwards,
\* so the service returns the synset of an identifier at most once.
C15_CachesWriteOnce ==
    /\ [](\A id \in Nodes : served[id] <= 1 /\ (served[id] = 1 <=> id \in synset_cache))
    /\ [][/\ synset_cache \subseteq synset_cache'
          /\ \A id \in DOMAIN lemma_cache :
                id \in DOMAIN lemma_cache' /\ lemma_cache'[id] = lemma_cache[id]]_vars

\* C15 witness: two calls of process_file over two roots have finished, at
\* least three nodes were looked up again and again, each served once.
C15_Witness ==
    /\ pc = "done"
    /\ run = 2
    /\ Len(seeds) = 2
    /\ max_depth >= 1
    /\ Cardinality(synset_cache) >= 3
    /\ \A id \in synset_cache : served[id] = 1 /\ id \in DOMAIN lemma_cache

\* C17: during one process_file run every node is recorded and expanded at
\* most once, whatever paths, cycles or roots lead to it; dequeuing a node
\* that is already in visited changes nothing but the queue.
C17_VisitedOnce ==
    /\ [](\A n \in Nodes : discovered[n] <= 1 /\ expanded[n] <= 1)
    /\ [][(pc = "traverse" /\ pc' = "traverse" /\ Head(queue)[1] \in DOMAIN visited)
            => /\ queue' = Tail(queue)
               /\ visited' = visited
               /\ synset_cache' = synset_cache
               /\ lemma_cache' = lemma_cache]_vars

\* C17 witness: with every request answered, one traversal has dequeued more
\* entries than there are nodes, so some node came back on a second path.
C17_Witness ==
    /\ NoFailures
    /\ pc = "traverse"
    /\ pbar > Cardinality(Nodes)
    /\ \E n \in Nodes : expanded[n] = 1

-----------------------------------------------------------------------------
(* Claims about the four collectors (checked under Spec) *)

\* What each collector returns for node n in the current state.
HypernymItems(n) ==
    FetchHypernyms(graph, synset_cache, lemma_cache, failNodes, failEdges, n, max_items).items

HyponymItems(n) ==
    FetchHyponyms(graph, synset_cache, lemma_cache, failNodes, failEdges, n, max_items).items

MeronymItems(n) ==
    FetchMeronyms(graph, synset_cache, lemma_cache, failNodes, failEdges, n, max_items).items

CohyponymItems(n) ==
    GetCohyponyms(graph, synset_cache, lemma_cache, failNodes, failEdges, n, max_items).items

\* C19: for every node and every max_items >= 0 each of fetch_hypernyms,
\* fetch_hyponyms, fetch_meronyms and get_cohyponyms returns at most
\* max_items neighbours (the three part-of sub-kinds together at most
\* max_items).
C19_AtMostMaxItemsPerKind ==
    \A n \in NodesOf(graph) \ failNodes :
        /\ Len(HypernymItems(n)) <= max_items
        /\ Len(HyponymItems(n)) <= max_items
        /\ Len(MeronymItems(n)) <= max_items
        /\ Len(CohyponymItems(n)) <= max_items

\* C20: when the query of one relation kind of the node being expanded
\* raises while that kind is collected, the sibling kind with its queries
\* of several broader terms included, that kind contributes no neighbour.
C20_RaisingKindContributesNothing ==
    (pc = "traverse" /\ queue # <<>> /\ Expands(Head(queue)[1], Head(queue)[2]))
        => LET n == Head(queue)[1]
               co == GetCohyponyms(graph, synset_cache, lemma_cache, failNodes,
                                   failEdges, n, max_items)
           IN  /\ <<n, HYPERNYM>> \in failEdges => HypernymItems(n) = <<>>
               /\ <<n, HYPONYM>> \in failEdges => HyponymItems(n) = <<>>
               /\ \A p \in Range(MeronymPointers) :
                     <<n, p>> \in failEdges
                        => FetchEdges(graph, synset_cache, lemma_cache, failNodes,
                                      failEdges, n, p, max_items).items = <<>>
               /\ co.raised => co.items = <<>>

-----------------------------------------------------------------------------
(* Deep crawls: process_file over a graph of nine nodes *)

MaxDeepDepth == 4

LongNodes == 1..9

NoLongEdges == [n \in LongNodes |-> <<>>]

LongLabelled == [n \in LongNodes |-> "w"]

\* Broader-term chains 1 -> 2 -> 3 -> 4 -> 5 -> 9 and 6 -> 7 -> 8 -> 9, with
\* 6 -> 5 as a shortcut between them; the same with the narrower-term edges
\* that mirror them; and a ring.
DeepGraphs ==
    { MkGraph(<< <<2>>, <<3>>, <<4>>, <<5>>, <<9>>, <<5, 7>>, <<8>>, <<9>>, <<>> >>,
              NoLongEdges, NoLongEdges, NoLongEdges, NoLongEdges, LongLabelled),
      MkGraph(<< <<2>>, <<3>>, <<4>>, <<5>>, <<9>>, <<5, 7>>, <<8>>, <<9>>, <<>> >>,
              << <<>>, <<1>>, <<2>>, <<3>>, <<4, 6>>, <<>>, <<6>>, <<7>>, <<5, 8>> >>,
              NoLongEdges, NoLongEdges, NoLongEdges, LongLabelled),
      MkGraph(<< <<2>>, <<3>>, <<4>>, <<5>>, <<6>>, <<7>>, <<8>>, <<9>>, <<1>> >>,
              NoLongEdges, NoLongEdges, NoLongEdges, NoLongEdges, LongLabelled) }

DeepSeedLists == {<<1>>, <<6>>, <<1, 6>>, <<6, 1>>}

DeepInit ==
    /\ NoGenerator /\ NoSingleCall /\ NoBalancedCall /\ NoFilter /\ NoAnalogy /\ NoGloss
    /\ graph \in DeepGraphs
    /\ failNodes = {}
    /\ failEdges = {}
    /\ seeds \in DeepSeedLists
    /\ max_depth \in 0..MaxDeepDepth
    /\ max_items \in 1..MaxItems
    /\ synset_cache = {}
    /\ lemma_cache = <<>>
    /\ visited = <<>>
    /\ queue = <<>>
    /\ pbar = 0
    /\ seedIdx = 1
    /\ pc = "seeds"
    /\ output = <<>>
    /\ run = 1
    /\ served = [n \in NodesOf(graph) |-> 0]
    /\ discovered = [n \in NodesOf(graph) |-> 0]
    /\ expanded = [n \in NodesOf(graph) |-> 0]

SpecDeep == DeepInit /\ [][Next]_vars

-----------------------------------------------------------------------------
(* Claims about the traversal order (checked under SpecDeep) *)

\* The retained edges of n: the neighbours its four collectors return under
\* max_items.
RetainedNeighbours(n) ==
    Range(AllRelations(graph, synset_cache, lemma_cache, failNodes, failEdges,
                       n, max_items).items)

\* The nodes within d hops of a node of S over retained edges.
RECURSIVE WithinHops(_, _)
WithinHops(S, d) ==
    IF d = 0 THEN S
    ELSE LET R == WithinHops(S, d - 1)
         IN  R \cup UNION {RetainedNeighbours(n) : n \in R}

BreadthFirstOrder == \A i \in 1..(Len(queue) - 1) : queue[i][2] <= queue[i + 1][2]

\* C18: within the traversal of one seed nodes are dequeued in non-decreasing
\* depth, and a node that is expanded is expanded at its minimum hop distance
\* from that seed over the retained edges, never at a greater depth.
C18_ExpandedAtMinimumDistance ==
    /\ BreadthFirstOrder
    /\ (pc = "traverse" /\ queue # <<>> /\ Expands(Head(queue)[1], Head(queue)[2]))
        => /\ Head(queue)[1] \in WithinHops({seeds[seedIdx]}, Head(queue)[2])
           /\ \A d \in 0..(Head(queue)[2] - 1) :
                 Head(queue)[1] \notin WithinHops({seeds[seedIdx]}, d)

-----------------------------------------------------------------------------
(* The relation filter of 2_fetch_words_with_hyper_mero.py *)

MaxLines == 3

\* A line that is empty once stripped.
EmptyLine == None

\* max_items as has_all_relations passes it to the four collectors, and the
\* default fetch_edges uses when fetch_meronyms calls it without one.
HasAllRelationsMaxItems == 1
FetchEdgesDefaultMaxItems == 10

\* Mock graphs for the filter: node 1 with all four kinds; node 1 with two
\* broader terms; nodes 1 and 3 with all four kinds; the same with the
\* sibling unlabelled; the same without node 1's part; two broader terms of
\* which the first is unlabelled.
RelationGraphs ==
    { MkGraph(<< <<2>>, <<>>, <<>>, <<>> >>, << <<4>>, <<1, 3>>, <<>>, <<>> >>,
              << <<3>>, <<>>, <<>>, <<>> >>, NoEdges, NoEdges, AllLabelled),
      MkGraph(<< <<2, 3>>, <<>>, <<>>, <<>> >>, << <<4>>, <<1>>, <<1, 4>>, <<>> >>,
              NoEdges, << <<4>>, <<>>, <<>>, <<>> >>, NoEdges, AllLabelled),
      MkGraph(<< <<2>>, <<>>, <<2>>, <<>> >>, << <<4>>, <<1, 3>>, <<4>>, <<>> >>,
              << <<4>>, <<>>, <<>>, <<>> >>, NoEdges,
              << <<>>, <<>>, <<4>>, <<>> >>, AllLabelled),
      MkGraph(<< <<2>>, <<>>, <<2>>, <<>> >>, << <<4>>, <<1, 3>>, <<4>>, <<>> >>,
              << <<4>>, <<>>, <<>>, <<>> >>, NoEdges,
              << <<>>, <<>>, <<4>>, <<>> >>, <<"w1", "w2", NA, "w4">>),
      MkGraph(<< <<2>>, <<>>, <<2>>, <<>> >>, << <<4>>, <<1, 3>>, <<4>>, <<>> >>,
              NoEdges, NoEdges,
              << <<>>, <<>>, <<4>>, <<>> >>, AllLabelled),
      MkGraph(<< <<2, 3>>, <<>>, <<>>, <<>> >>, << <<4>>, <<1>>, <<1, 4>>, <<>> >>,
              NoEdges, << <<4>>, <<>>, <<>>, <<>> >>, NoEdges,
              <<"w1", NA, "w3", "w4">>) }

Services ==
    {[graph |-> g, failNodes |-> f.nodes, failEdges |-> f.edges] :
        g \in RelationGraphs, f \in FailureChoices}

\* fetch_edges' loop: the limit is tested before a target is fetched; a
\* target that cannot be fetched raises inside the try, which ends the loop
\* with the items collected so far; an unlabelled target is skipped.
RECURSIVE FilterFetchEdgesLoop(_, _, _, _, _)
FilterFetchEdgesLoop(sv, edges, i, items, K) ==
    IF i > Len(edges) \/ Len(items) >= K THEN items
    ELSE IF edges[i] \in sv.failNodes THEN items
    ELSE IF sv.graph.lemma[edges[i]] # NA
         THEN FilterFetchEdgesLoop(sv, edges, i + 1, Append(items, edges[i]), K)
         ELSE FilterFetchEdgesLoop(sv, edges, i + 1, items, K)

\* fetch_edges: a relation query that raises yields the empty list.
FilterFetchEdges(sv, n, p, K) ==
    IF <<n, p>> \in sv.failEdges THEN <<>>
    ELSE FilterFetchEdgesLoop(sv, OutgoingEdges(sv.graph, n, p), 1, <<>>, K)

FilterFetchHypernyms(sv, n, K) == FilterFetchEdges(sv, n, HYPERNYM, K)

FilterFetchHyponyms(sv, n, K) == FilterFetchEdges(sv, n, HYPONYM, K)

\* fetch_meronyms' loop over the three pointers: each sub-kind is collected
\* with fetch_edges' default limit, and the loop stops once max_items are
\* there.
RECURSIVE FilterFetchMeronymsLoop(_, _, _, _, _)
FilterFetchMeronymsLoop(sv, n, j, items, K) ==
    IF j > Len(MeronymPointers) THEN items
    ELSE LET more == items \o FilterFetchEdges(sv, n, MeronymPointers[j],
                                               FetchEdgesDefaultMaxItems)
         IN  IF Len(more) >= K THEN more
             ELSE FilterFetchMeronymsLoop(sv, n, j + 1, more, K)

\* fetch_meronyms: items[:max_items].
FilterFetchMeronyms(sv, n, K) == Take(FilterFetchMeronymsLoop(sv, n, 1, <<>>, K), K)

\* get_cohyponyms' inner loop over the narrower terms of one broader term:
\* the node itself is skipped, a target that cannot be fetched raises, and
\* the limit is tested after every edge.
RECURSIVE FilterCohyponymInner(_, _, _, _, _, _)
FilterCohyponymInner(sv, n, edges, j, items, K) ==
    IF j > Len(edges) THEN [items |-> items, raised |-> FALSE]
    ELSE IF edges[j] # n /\ edges[j] \in sv.failNodes
         THEN [items |-> items, raised |-> TRUE]
    ELSE LET more == IF edges[j] # n /\ sv.graph.lemma[edges[j]] # NA
                     THEN Append(items, edges[j]) ELSE items
         IN  IF Len(more) >= K THEN [items |-> more, raised |-> FALSE]
             ELSE FilterCohyponymInner(sv, n, edges, j + 1, more, K)

\* get_cohyponyms' outer loop over the broader terms: fetching a broader
\* term or asking for its narrower terms may raise, which ends the whole
\* collection with what was found so far.
RECURSIVE FilterCohyponymOuter(_, _, _, _, _, _)
FilterCohyponymOuter(sv, n, hypernyms, i, items, K) ==
    IF i > Len(hypernyms) THEN items
    ELSE IF hypernyms[i] \in sv.failNodes \/ <<hypernyms[i], HYPONYM>> \in sv.failEdges
         THEN items
    ELSE LET r == FilterCohyponymInner(sv, n, sv.graph.hypo[hypernyms[i]], 1, items, K)
         IN  IF r.raised \/ Len(r.items) >= K THEN r.items
             ELSE FilterCohyponymOuter(sv, n, hypernyms, i + 1, r.items, K)

FilterGetCohyponyms(sv, n, K) ==
    IF <<n, HYPERNYM>> \in sv.failEdges THEN <<>>
    ELSE FilterCohyponymOuter(sv, n, sv.graph.hyper[n], 1, <<>>, K)

\* has_all_relations: every one of the four collectors returned something.
HasAllRelations(sv, n) ==
    /\ FilterFetchHypernyms(sv, n, HasAllRelationsMaxItems) # <<>>
    /\ FilterFetchHyponyms(sv, n, HasAllRelationsMaxItems) # <<>>
    /\ FilterFetchMeronyms(sv, n, HasAllRelationsMaxItems) # <<>>
    /\ FilterGetCohyponyms(sv, n, HasAllRelationsMaxItems) # <<>>

InputFiles == UNION {[1..k -> Nodes \cup {EmptyLine}] : k \in 0..MaxLines}

FilterInit ==
    /\ NoCrawl /\ NoGenerator /\ NoSingleCall /\ NoBalancedCall /\ NoAnalogy /\ NoGloss
    /\ service \in Services
    /\ infile \in InputFiles
    /\ max_lines \in 0..MaxLines
    /\ line_i = 0
    /\ outfile = <<>>
    /\ fpc = "lines"

\* One pass of process_file's loop: an empty line is skipped, a node that
\* cannot be fetched is reported, and the identifier is written when
\* has_all_relations says so.
ProcessLine ==
    /\ fpc = "lines"
    /\ line_i < Len(infile)
    /\ line_i < max_lines
    /\ LET line == infile[line_i + 1]
       IN  outfile' = IF line = EmptyLine THEN outfile
                      ELSE IF line \in service.failNodes THEN outfile
                      ELSE IF HasAllRelations(service, line) THEN Append(outfile, line)
                      ELSE outfile
    /\ line_i' = line_i + 1
    /\ UNCHANGED <<service, infile, max_lines, fpc>>
    /\ UNCHANGED <<crawlVars, genVars, balVars, analogyVars, glossVars>>

\* The loop ends at the end of the input or at max_lines; both files close.
CloseFiles ==
    /\ fpc = "lines"
    /\ line_i >= Len(infile) \/ line_i >= max_lines
    /\ fpc' = "closed"
    /\ UNCHANGED <<service, infile, max_lines, line_i, outfile>>
    /\ UNCHANGED <<crawlVars, genVars, balVars, analogyVars, glossVars>>

NextFilter == ProcessLine \/ CloseFiles

SpecFilter == FilterInit /\ [][NextFilter]_vars

-----------------------------------------------------------------------------
(* Claims about the relation filter (checked under SpecFilter) *)

\* What the service answers for a relation query that does not raise.
Answers(sv, n, p) ==
    IF <<n, p>> \in sv.failEdges THEN {} ELSE Range(OutgoingEdges(sv.graph, n, p))

\* A neighbour that can be fetched and has a label.
LabelledNode(sv, t) == t \notin sv.failNodes /\ sv.graph.lemma[t] # NA

PartOfTerms(sv, n) == UNION {Answers(sv, n, p) : p \in Range(MeronymPointers)}

SiblingTerms(sv, n) ==
    UNION {Answers(sv, h, HYPONYM) \ {n} : h \in Answers(sv, n, HYPERNYM) \ sv.failNodes}

HasEachKind(sv, n) ==
    /\ \E t \in Answers(sv, n, HYPERNYM) : LabelledNode(sv, t)
    /\ \E t \in Answers(sv, n, HYPONYM) : LabelledNode(sv, t)
    /\ \E t \in PartOfTerms(sv, n) : LabelledNode(sv, t)
    /\ \E t \in SiblingTerms(sv, n) : LabelledNode(sv, t)

Qualifies(line) ==
    /\ line # EmptyLine
    /\ line \notin service.failNodes
    /\ HasEachKind(service, line)

\* C16: no empty line and no node that cannot be fetched or checked halts
\* the pass: every line within max_lines is processed, and the output holds,
\* in input order, exactly the identifiers whose node was fetched and has a
\* labelled neighbour of each of the four kinds.
C16_FilterWritesExactlyQualifying ==
    fpc = "closed" =>
        /\ line_i = Min(Len(infile), max_lines)
        /\ outfile = SelectSeq(SubSeq(infile, 1, line_i), Qualifies)


-----------------------------------------------------------------------------
(* Claims about the distractor strategies (checked under SpecQ) *)

\* The primary candidate pool of the called tier, as its strategy builds it.
PrimaryPool ==
    CASE call.difficulty = 2 -> GetDistantHypernyms(CalledEntry, call.to_code)
      [] call.difficulty = 3 -> LemmasOf(CalledEntry.hypernyms, call.to_code)
                                \cup LemmasOf(CalledEntry.hyponyms, call.to_code)
      [] call.difficulty = 4 -> LemmasOf(CalledEntry.cohyponyms, call.to_code)
      [] call.difficulty = 5 -> LemmasOf(CalledEntry.meronyms, call.to_code)
                                \cup GetSharedHypernymSynsets(CalledEntry, call.to_code)
      [] OTHER -> {}

\* C21: at tiers 2 to 5 a primary pool of fewer than n_choices - 1 labels,
\* none the correct label, is topped up and not replaced: all its labels are
\* among the final distractors.
C21_PrimaryPoolToppedUp ==
    (/\ Returned
     /\ call.difficulty \in 2..5
     /\ Cardinality(PrimaryPool) < n_choices - 1
     /\ CorrectLabel \notin PrimaryPool)
        => PrimaryPool \subseteq Distractors

\* Every entry and every relation item of the pool carries a synset_id.
RelationsCarryIdentifiers ==
    \A i \in DOMAIN data :
        /\ data[i].synset_id # None
        /\ \A k \in DOMAIN RelTypes :
              \A r \in Range(Field(data[i], RelTypes[k])) : r.synset_id # None

\* The identifiers one level along rel_type from the pool entries in ids.
OneLevel(rel_type, ids) ==
    UNION {{r.synset_id : r \in Range(Field(data[i], rel_type))} :
              i \in {j \in DOMAIN data : data[j].synset_id \in ids}}

\* The identifiers between 1 and k levels along rel_type from ids.
RECURSIVE UpToLevels(_, _, _)
UpToLevels(rel_type, ids, k) ==
    IF k = 0 THEN {}
    ELSE OneLevel(rel_type, ids) \cup UpToLevels(rel_type, OneLevel(rel_type, ids), k - 1)

\* The identifiers exactly k levels along rel_type from ids.
RECURSIVE AtLevel(_, _, _)
AtLevel(rel_type, ids, k) ==
    IF k = 0 THEN ids ELSE AtLevel(rel_type, OneLevel(rel_type, ids), k - 1)

\* The labels in lang of the pool entries with an identifier in ids.
LabelsOfIds(ids, lang) ==
    {LemmaIn(data[i], lang) :
        i \in {j \in DOMAIN data : data[j].synset_id \in ids /\ HasTranslation(data[j], lang)}}

\* The entries that have a broader term among the prompt's.
SharingBroaderTerm(entry) ==
    {data[i].synset_id :
        i \in {j \in DOMAIN data :
                  /\ data[j].synset_id # entry.synset_id
                  /\ OneLevel("hypernyms", {data[j].synset_id})
                        \cap OneLevel("hypernyms", {entry.synset_id}) # {}}}

\* C22: in a pool whose relation entries carry identifiers, the tier-1
\* exclusion set of a prompt holds the prompt, its direct relations, its
\* broader-term ancestors up to 3 levels, its narrower-term descendants up to
\* 2 levels and the nodes sharing a broader term; so the cross-domain pool
\* holds no label of a grandparent, great-grandparent or grandchild.
C22_ExclusionSetCoversAncestors ==
    (qpc = "returned" /\ RelationsCarryIdentifiers)
        => LET self == {CalledEntry.synset_id}
               excluded == BuildSemanticExclusionSet(CalledEntry)
               far == AtLevel("hypernyms", self, 2) \cup AtLevel("hypernyms", self, 3)
                      \cup AtLevel("hyponyms", self, 2)
           IN  /\ self \subseteq excluded
               /\ UNION {OneLevel(RelTypes[k], self) : k \in DOMAIN RelTypes} \subseteq excluded
               /\ UpToLevels("hypernyms", self, HypernymExclusionDepth) \subseteq excluded
               /\ UpToLevels("hyponyms", self, HyponymExclusionDepth) \subseteq excluded
               /\ SharingBroaderTerm(CalledEntry) \subseteq excluded
               /\ \A words \in GetCrossDomainWords(CalledEntry, call.to_code,
                                                   CrossDomainSampleSize) :
                     words \cap LabelsOfIds(far, call.to_code) = {}

\* Two labels share their first StemLength letters.
SharePrefix(a, b) ==
    /\ Len(a) >= StemLength
    /\ Len(b) >= StemLength
    /\ SubSeq(a, 1, StemLength) = SubSeq(b, 1, StemLength)

\* Label w shares a 3-letter prefix with, contains, or is contained in label.
SharesLetters(w, label) ==
    \/ SharePrefix(Lower(w), Lower(label))
    \/ IsSubstring(Lower(w), Lower(label))
    \/ IsSubstring(Lower(label), Lower(w))

\* The cross-domain pools a tier-1 call can build for the prompt.
CrossDomainPools == GetCrossDomainWords(CalledEntry, call.to_code, CrossDomainSampleSize)

\* C23 as claimed: no label of the tier-1 cross-domain pool shares a 3-letter
\* prefix with, contains, or is contained in the correct label.
C23_PoolSharesNothingWithCorrectLabel ==
    (Returned /\ call.difficulty = 1)
        => \A words \in CrossDomainPools :
              \A w \in words : ~SharesLetters(w, CorrectLabel)

\* The prompt entry's own label in the target language.
PromptTargetLabel == LemmaIn(CalledEntry, call.to_code)

\* The entries left after the exclusion set: those the vocabulary test is
\* decisive for.
NotExcluded ==
    {i \in DOMAIN data :
        /\ data[i].synset_id \notin BuildSemanticExclusionSet(CalledEntry)
        /\ HasTranslation(data[i], call.to_code)}

\* C23, amended: no label of the tier-1 cross-domain pool contains, is
\* contained in, or (both being longer than 3 letters) shares a 3-letter
\* prefix with the prompt entry's own label in the target language.
C23_PoolSharesNothingWithPromptLabel ==
    (Returned /\ call.difficulty = 1 /\ HasTranslation(CalledEntry, call.to_code))
        => \A words \in CrossDomainPools :
              \A w \in words :
                 /\ ~IsSubstring(Lower(w), Lower(PromptTargetLabel))
                 /\ ~IsSubstring(Lower(PromptTargetLabel), Lower(w))
                 /\ (Len(w) > StemLength /\ Len(PromptTargetLabel) > StemLength)
                       => ~SharePrefix(Lower(w), Lower(PromptTargetLabel))

\* C23 witness: a tier-1 question was returned for a prompt with a
\* target-language label; an entry outside the exclusion set was kept out of
\* the pool for its label, others were admitted.
C23_Witness ==
    /\ Returned
    /\ call.difficulty = 1
    /\ HasTranslation(CalledEntry, call.to_code)
    /\ \E i \in NotExcluded : SharesLetters(LemmaIn(data[i], call.to_code), PromptTargetLabel)
    /\ \E words \in CrossDomainPools : words # {}


-----------------------------------------------------------------------------
(* Claims about the pool file and the tier-2 strategy (checked under SpecQ) *)

\* The pool as fetch_synset_relations builds it, each relation item with the
\* identifier enrich_with_translations writes under "id".
WithIdentifiers(d) == IF d = VehiclePool(FALSE) THEN VehiclePool(TRUE) ELSE d

\* The pool was written by the enrichment step: its relation items carry no
\* "synset_id".
FromEnrichment(d) == d = VehiclePool(FALSE)

\* The position in d of the entry with identifier id, 0 if there is none.
EntryIndex(d, id) ==
    IF \E i \in DOMAIN d : d[i].synset_id = id
    THEN CHOOSE i \in DOMAIN d : d[i].synset_id = id
    ELSE 0

\* The target-language labels of the broader terms of the pool entry id.
BroaderLabels(d, id, lang) ==
    IF EntryIndex(d, id) = 0 THEN {} ELSE LemmasOf(d[EntryIndex(d, id)].hypernyms, lang)

\* The identifiers of the prompt's broader-term neighbours.
PromptBroaderTerms ==
    {h.synset_id :
        h \in Range(WithIdentifiers(data)[EntryIndex(data, call.entry.synset_id)].hypernyms)}

\* The labels of the prompt's grandparents.
GrandparentLabels ==
    UNION {BroaderLabels(WithIdentifiers(data), h, call.to_code) : h \in PromptBroaderTerms}

\* Some broader-term neighbour of the prompt is a pool entry whose own
\* broader terms have at least n_choices - 1 labels, none the correct one.
EnoughGrandparents ==
    /\ CorrectLabel \notin GrandparentLabels
    /\ \E h \in PromptBroaderTerms :
          Cardinality(BroaderLabels(WithIdentifiers(data), h, call.to_code)) >= n_choices - 1

\* C24: on a pool written by the enrichment step, a tier-2 question for a
\* prompt with enough grandparent labels draws all its distractors from the
\* grandparent labels.
C24_TierTwoDrawsFromGrandparents ==
    (Returned /\ call.difficulty = 2 /\ FromEnrichment(data) /\ EnoughGrandparents)
        => Distractors \subseteq GrandparentLabels


-----------------------------------------------------------------------------
(* Frame of a generation run (checked under SpecBal) *)

\* A step of the while loop within one language pair.
AttemptStep == bpc = "while" /\ bpc' = "while" /\ entry_idx' = entry_idx + 1

\* The attempt of that step returned a Question, which was kept.
AttemptSucceeded == Len(lang_pair_questions') = Len(lang_pair_questions) + 1

\* C25: no _create_single_question call, successful or not, changes the node
\* pool or the lookup indexes built from it; within a language pair the
\* used-prompt-word set and the question-id counter change only on a
\* successful attempt, and then both do.
C25_AttemptsLeavePoolAndIndexes ==
    [][/\ data' = data
       /\ lemma_lookup' = lemma_lookup
       /\ SynsetToEntry(data') = SynsetToEntry(data)
       /\ qid' # qid => AttemptStep /\ AttemptSucceeded
       /\ AttemptStep =>
             IF AttemptSucceeded
             THEN /\ qid' = qid + 1
                  /\ used_source_words' =
                        used_source_words
                        \cup {LemmaIn(entries[entry_idx + 1][1],
                                      valid_entries[pair_idx].from_code)}
                  /\ used_source_words' # used_source_words
             ELSE qid' = qid /\ used_source_words' = used_source_words]_vars

\* C25 witness: in the first tier of a language pair one attempt has failed
\* and one has succeeded, with both language keys in the lemma lookup.
C25_Witness ==
    /\ bpc = "while"
    /\ difficulty_enum = 1
    /\ questions_generated >= 1
    /\ entry_idx > questions_generated
    /\ Cardinality(used_source_words) = questions_generated
    /\ DOMAIN lemma_lookup = Langs


-----------------------------------------------------------------------------
(* AnalogyGenerator of generate_analogies.py *)

MaxAnalogyCalls == 2

AnalogyRelTypes == <<"hypernyms", "hyponyms", "meronyms", "holonyms", "cohyponyms">>

\* entry.get(rel_type, []); the pool file holds no "holonyms" lists.
AnalogyField(entry, rel_type) ==
    IF rel_type = "holonyms" THEN <<>> ELSE Field(entry, rel_type)

\* The second table of _build_lemma_lookup: language code -> relation type ->
\* the lemmas of the relation items of that type. Both levels are
\* defaultdicts, so only the codes and types that occur are keys.
BuildSemanticRelations(d) ==
    LET pairs(rt) == UNION {x.translations :
                              x \in UNION {Range(AnalogyField(d[i], rt)) : i \in DOMAIN d}}
        types == Range(AnalogyRelTypes)
        codes == {t[1] : t \in UNION {pairs(rt) : rt \in types}}
    IN  [lang \in codes |->
            [rt \in {r \in types : \E t \in pairs(r) : t[1] = lang} |->
                {t[2] : t \in {u \in pairs(rt) : u[1] = lang}}]]

\* self.semantic_relations[lang].get(rel_type, set())
RelationGet(relations, lang, rel_type) ==
    IF lang \in DOMAIN relations /\ rel_type \in DOMAIN relations[lang]
    THEN relations[lang][rel_type]
    ELSE {}

\* The table after self.semantic_relations[lang] was read: the outer
\* defaultdict inserts a missing code with an empty inner table.
RelationsTouch(relations, lang) ==
    IF lang \in DOMAIN relations THEN relations
    ELSE [l \in DOMAIN relations \cup {lang} |->
            IF l = lang THEN <<>> ELSE relations[l]]

\* The table after semantic_pool.update(added), semantic_pool being what
\* .get(rel_type, set()) returned: the stored set itself when rel_type is a
\* key, a fresh set otherwise.
RelationsUpdate(relations, lang, rel_type, added) ==
    IF rel_type \in DOMAIN relations[lang]
    THEN [relations EXCEPT ![lang][rel_type] = @ \cup added]
    ELSE relations

\* AnalogyGenerator._finalize_distractors: the sets it can return.
AnalogyFinalizeDistractors(distractors, correct_lemma, all_candidates, n) ==
    LET kept == distractors \ {correct_lemma}
        remaining == (all_candidates \ kept) \ {correct_lemma}
        missing == n - 1 - Cardinality(kept)
    IN  IF missing <= 0 THEN {kept}
        ELSE {kept \cup F :
                F \in SampleSets(remaining, Min(missing, Cardinality(remaining)))}

\* What a strategy leaves behind: the relation table after it and the
\* finalized distractors, for every set of draws in drawn.
StrategyOutcomes(relations, drawn, correct_lemma, all_candidates, n) ==
    {[semantic_relations |-> relations, distractors |-> D, raised |-> FALSE] :
        D \in UNION {AnalogyFinalizeDistractors(S, correct_lemma, all_candidates, n) :
                        S \in drawn}}

\* random.sample raised ValueError: the sample is larger than the population.
StrategyRaised(relations) ==
    {[semantic_relations |-> relations, distractors |-> {}, raised |-> TRUE]}

RandomDistractors(g, correct_lemma, all_candidates, target_lang, relation_type) ==
    StrategyOutcomes(g.semantic_relations,
                     SampleSets(all_candidates,
                                Min(g.n_choices - 1, Cardinality(all_candidates))),
                     correct_lemma, all_candidates, g.n_choices)

MixedDistractors(g, correct_lemma, all_candidates, target_lang, relation_type) ==
    LET cohyponyms == RelationGet(g.semantic_relations, target_lang, "cohyponyms")
        semantic_words == IF cohyponyms # {} THEN SampleSets(cohyponyms, 1) ELSE {{}}
        random_words == SampleSets(all_candidates,
                                   Min(g.n_choices - 2, Cardinality(all_candidates)))
    IN  StrategyOutcomes(g.semantic_relations,
                         {R \cup S : R \in random_words, S \in semantic_words},
                         correct_lemma, all_candidates, g.n_choices)

SemanticDistractors(g, correct_lemma, all_candidates, target_lang, relation_type) ==
    LET relations == g.semantic_relations
        cohyponyms == RelationGet(relations, target_lang, "cohyponyms")
        semantic_pool == RelationGet(relations, target_lang, relation_type) \cup cohyponyms
        size == Cardinality(semantic_pool)
    IN  IF target_lang \in DOMAIN relations
        THEN StrategyOutcomes(
                RelationsUpdate(relations, target_lang, relation_type, cohyponyms),
                IF size >= g.n_choices - 1
                THEN SampleSets(semantic_pool, g.n_choices - 1)
                ELSE {semantic_pool \cup S :
                        S \in SampleSets(all_candidates,
                                         Min(g.n_choices - 1 - size,
                                             Cardinality(all_candidates)))},
                correct_lemma, all_candidates, g.n_choices)
        ELSE IF Cardinality(all_candidates) >= g.n_choices - 1
        THEN StrategyOutcomes(relations, SampleSets(all_candidates, g.n_choices - 1),
                              correct_lemma, all_candidates, g.n_choices)
        ELSE StrategyRaised(relations)

\* The closing branch of the two closest strategies: enough matches are
\* sampled, too few are topped up from the relation types of fill, read
\* through self.semantic_relations[target_lang].
MatchesOrFill(g, matches, fill, correct_lemma, all_candidates, target_lang) ==
    LET relations == g.semantic_relations
        touched == RelationsTouch(relations, target_lang)
        pool == UNION {RelationGet(touched, target_lang, rt) : rt \in fill}
        needed == g.n_choices - 1 - Cardinality(matches)
    IN  IF Cardinality(matches) >= g.n_choices - 1
        THEN StrategyOutcomes(relations, SampleSets(matches, g.n_choices - 1),
                              correct_lemma, all_candidates, g.n_choices)
        ELSE StrategyOutcomes(touched,
                              {matches \cup S :
                                  S \in SampleSets(pool, Min(needed, Cardinality(pool)))},
                              correct_lemma, all_candidates, g.n_choices)

CloseSemanticDistractors(g, correct_lemma, all_candidates, target_lang, relation_type) ==
    MatchesOrFill(g,
                  RelationGet(g.semantic_relations, target_lang, relation_type)
                      \cup RelationGet(g.semantic_relations, target_lang, "cohyponyms"),
                  {"hypernyms"}, correct_lemma, all_candidates, target_lang)

VeryCloseDistractors(g, correct_lemma, all_candidates, target_lang, relation_type) ==
    MatchesOrFill(g,
                  RelationGet(g.semantic_relations, target_lang, relation_type)
                      \cup RelationGet(g.semantic_relations, target_lang, "meronyms"),
                  {"hyponyms", "hypernyms"}, correct_lemma, all_candidates, target_lang)

\* AnalogyGenerator._generate_distractors: the strategy of the difficulty.
AnalogyGenerateDistractors(g, correct_lemma, all_candidates, target_lang, relation_type, difficulty) ==
    CASE difficulty = 1 ->
            RandomDistractors(g, correct_lemma, all_candidates, target_lang, relation_type)
      [] difficulty = 2 ->
            MixedDistractors(g, correct_lemma, all_candidates, target_lang, relation_type)
      [] difficulty = 3 ->
            SemanticDistractors(g, correct_lemma, all_candidates, target_lang, relation_type)
      [] difficulty = 4 ->
            CloseSemanticDistractors(g, correct_lemma, all_candidates, target_lang, relation_type)
      [] difficulty = 5 ->
            VeryCloseDistractors(g, correct_lemma, all_candidates, target_lang, relation_type)

\* _find_analogy_pair: the (C, D) lemma pairs random.choice can pick.
FindAnalogyPair(g, relation_type, to_code, used) ==
    {cd \in {<<LemmaIn(g.data[i], to_code), LemmaIn(x, to_code)>> :
                i \in {k \in DOMAIN g.data : HasTranslation(g.data[k], to_code)},
                x \in {y \in UNION {Range(AnalogyField(g.data[k], relation_type)) :
                                        k \in {k2 \in DOMAIN g.data : HasTranslation(g.data[k2], to_code)}} :
                          HasTranslation(y, to_code)}} :
        /\ \E i \in DOMAIN g.data :
              /\ HasTranslation(g.data[i], to_code)
              /\ LemmaIn(g.data[i], to_code) = cd[1]
              /\ \E x \in Range(AnalogyField(g.data[i], relation_type)) :
                    HasTranslation(x, to_code) /\ LemmaIn(x, to_code) = cd[2]
        /\ cd \notin used
        /\ <<cd[2], cd[1]>> \notin used}

\* The relation types _collect_valid_entries keeps for an entry and a source
\* language: those with an item labelled in from_code.
AnalogyValidRelations(entry, from_code) ==
    {rt \in Range(AnalogyRelTypes) :
        \E x \in Range(AnalogyField(entry, rt)) : HasTranslation(x, from_code)}

\* The relation types random.choice(valid_relations) can pick for some entry
\* of a language pair with source language from_code.
AnalogyPairRelations(d, from_code) ==
    UNION {AnalogyValidRelations(d[i], from_code) :
              i \in {k \in DOMAIN d : HasTranslation(d[k], from_code)}}

AnalogyPools == {VehiclePool(FALSE), TinyPool}

\* AnalogyGenerator(data, min_distractors, n_choices)
AnalogyInit ==
    /\ NoCrawl /\ NoGenerator /\ NoSingleCall /\ NoBalancedCall /\ NoFilter /\ NoGloss
    /\ \E d \in AnalogyPools, m \in 1..MaxMinDistractors, n \in 2..MaxChoices :
          analogy = [data |-> d, min_distractors |-> m, n_choices |-> n,
                     lemma_lookup |-> BuildLemmaLookup(d),
                     semantic_relations |-> BuildSemanticRelations(d)]
    /\ used_pairs = {}
    /\ analogy_call = NoAnalogyCall
    /\ analogy_calls = 0

\* One _create_single_question call of _generate_balanced_questions, for an
\* entry of valid_entries[from_code + "_to_" + to_code] at a difficulty.
AnalogyCreateSingleQuestion ==
    /\ analogy_calls < MaxAnalogyCalls
    /\ \E difficulty \in 1..5, from_code \in Langs, to_code \in Langs :
          /\ ~(from_code = to_code /\ from_code # "en")
          /\ \E relation_type \in AnalogyPairRelations(analogy.data, from_code) :
                LET second_pairs == FindAnalogyPair(analogy, relation_type, to_code, used_pairs)
                    called == [difficulty |-> difficulty, to_code |-> to_code,
                               relation_type |-> relation_type,
                               D_correct_lemma |-> <<>>, all_candidates |-> {},
                               distractors |-> {}, returned |-> "None"]
                IN  IF second_pairs = {}
                    THEN /\ analogy_call' = called
                         /\ UNCHANGED <<analogy, used_pairs>>
                    ELSE \E cd \in second_pairs :
                            LET touched == LookupTouch(analogy.lemma_lookup, to_code)
                                all_candidates == LookupGet(touched, to_code) \ {cd[2]}
                                g == [analogy EXCEPT !.lemma_lookup = touched]
                                found == [called EXCEPT !.D_correct_lemma = cd[2],
                                                        !.all_candidates = all_candidates]
                            IN  /\ used_pairs' = used_pairs \cup {cd}
                                /\ IF Cardinality(all_candidates) < analogy.min_distractors
                                   THEN /\ analogy' = g
                                        /\ analogy_call' = found
                                   ELSE \E o \in AnalogyGenerateDistractors(
                                                    g, cd[2], all_candidates, to_code,
                                                    relation_type, difficulty) :
                                           /\ analogy' = [g EXCEPT !.semantic_relations =
                                                                      o.semantic_relations]
                                           /\ analogy_call' =
                                                 [found EXCEPT
                                                    !.distractors = o.distractors,
                                                    !.returned = IF o.raised THEN "None"
                                                                 ELSE "Question"]
    /\ analogy_calls' = analogy_calls + 1
    /\ UNCHANGED <<crawlVars, genVars, balVars, filterVars, glossVars>>

\* _generate_balanced_questions moves on to the next language pair:
\* used_pairs = set().
AnalogyNextPair ==
    /\ used_pairs # {}
    /\ used_pairs' = {}
    /\ UNCHANGED <<analogy, analogy_call, analogy_calls>>
    /\ UNCHANGED <<crawlVars, genVars, balVars, filterVars, glossVars>>

NextAnalogy == AnalogyCreateSingleQuestion \/ AnalogyNextPair

SpecAnalogy == AnalogyInit /\ [][NextAnalogy]_vars

-----------------------------------------------------------------------------
(* Claims about the analogy generator (checked under SpecAnalogy) *)

\* C26: whatever distractor-generation calls were made, at any of the five
\* difficulties, the semantic_relations and lemma_lookup tables are as
\* _build_lemma_lookup built them, so a call sees the same candidate pool
\* whichever calls came before it. Stated as claimed; _semantic_distractors
\* updates the set stored under the relation type in place.
C26_IndexesAsBuilt ==
    /\ analogy.semantic_relations = BuildSemanticRelations(analogy.data)
    /\ analogy.lemma_lookup = BuildLemmaLookup(analogy.data)


-----------------------------------------------------------------------------
(* GlossQuestionGenerator of 6_generate_gloss_questions.py *)

MaxGlossTarget == 4

GlossDifficulties == 3

G_A == <<"a">>
G_PaddedA == <<" ", "a", " ">>
G_B == <<"b">>
G_C == <<"c">>
G_Blank == <<" ">>

\* An entry of the pool file with its glossary: language code -> gloss text.
GlossEntry(id, translations, glossary) ==
    [synset_id |-> id, translations |-> translations, glossary |-> glossary]

\* Three labelled entries, two of whose English glosses differ only in the
\* surrounding blanks; four English entries, one without a glossary and one
\* with a blank gloss.
GlossPools ==
    {<< GlossEntry(1, EnDe(W_Car, W_Auto), EnDe(G_A, G_A)),
        GlossEntry(2, EnDe(W_Bus, W_Bus), EnDe(G_PaddedA, G_B)),
        GlossEntry(3, EnDe(W_Wheel, W_Rad), EnDe(G_B, G_C)) >>,
     << GlossEntry(1, EnOnly(W_Dog), EnOnly(G_A)),
        GlossEntry(2, EnOnly(W_Cat), EnOnly(G_B)),
        GlossEntry(3, EnOnly(W_Tail), {}),
        GlossEntry(4, EnOnly(W_Animal), EnOnly(G_Blank)),
        GlossEntry(5, EnOnly(W_Canine), EnOnly(G_C)) >>}

\* GlossQuestionGenerator._build_lemma_lookup: the labels of the entries.
GlossBuildLemmaLookup(d) ==
    LET pairs == UNION {d[i].translations : i \in DOMAIN d}
    IN  [lang \in {t[1] : t \in pairs} |-> {t[2] : t \in {u \in pairs : u[1] = lang}}]

\* str.strip() on a gloss text.
RECURSIVE Strip(_)
Strip(text) ==
    IF text = <<>> THEN text
    ELSE IF Head(text) = " " THEN Strip(Tail(text))
    ELSE IF text[Len(text)] = " " THEN Strip(SubSeq(text, 1, Len(text) - 1))
    ELSE text

\* entry["glossary"].get(from_code) ... .get("text", "").strip()
GlossText(entry, from_code) ==
    IF \E t \in entry.glossary : t[1] = from_code
    THEN Strip((CHOOSE t \in entry.glossary : t[1] = from_code)[2])
    ELSE <<>>

\* Whether _collect_valid_entries appends entry to valid_entries[from_to].
GlossIsValidEntry(entry, from_code, to_code) ==
    /\ entry.glossary # {}
    /\ \E t \in entry.glossary : t[1] = from_code
    /\ HasTranslation(entry, to_code)
    /\ ~(from_code = to_code /\ from_code # "en")

\* GlossQuestionGenerator._collect_valid_entries: the language pairs in
\* insertion order (entries outermost, then from_languages, then
\* target_languages), each with its entries in the order of self.data.
RECURSIVE GlossPairKeys(_, _, _, _)
GlossPairKeys(d, langs, step, keys) ==
    LET nf == Len(langs.from_languages)
        nt == Len(langs.target_languages)
        i == (step \div (nf * nt)) + 1
        key == <<langs.from_languages[((step \div nt) % nf) + 1],
                 langs.target_languages[(step % nt) + 1]>>
    IN  IF step >= Len(d) * nf * nt THEN keys
        ELSE IF /\ GlossIsValidEntry(d[i], key[1], key[2])
                /\ \A k \in DOMAIN keys : keys[k] # key
        THEN GlossPairKeys(d, langs, step + 1, Append(keys, key))
        ELSE GlossPairKeys(d, langs, step + 1, keys)

GlossCollectValidEntries(d, langs) ==
    LET keys == GlossPairKeys(d, langs, 0, <<>>)
    IN  [k \in DOMAIN keys |->
            [from_code |-> keys[k][1], to_code |-> keys[k][2],
             entries |-> SelectSeq(d, LAMBDA e :
                                        GlossIsValidEntry(e, keys[k][1], keys[k][2]))]]

\* GlossQuestionGenerator._generate_distractors: the samples it can return,
\* the same at every difficulty.
GlossGenerateDistractors(g, correct_lemma, all_candidates) ==
    LET filtered == all_candidates \ {correct_lemma}
    IN  SampleSets(filtered, Min(g.n_choices - 1, Cardinality(filtered)))

\* generate_gloss_questions up to the loop over valid_entries, for a generator
\* GlossQuestionGenerator(data, min_distractors, n_choices).
GlossInit ==
    /\ NoCrawl /\ NoGenerator /\ NoSingleCall /\ NoBalancedCall /\ NoFilter /\ NoAnalogy
    /\ \E d \in GlossPools, m \in 1..MaxMinDistractors, n \in 2..MaxChoices :
          gloss = [data |-> d, min_distractors |-> m, n_choices |-> n,
                   lemma_lookup |-> GlossBuildLemmaLookup(d)]
    /\ gloss_mode \in Modes
    /\ gloss_target \in 0..MaxGlossTarget
    /\ gloss_valid_entries = GlossCollectValidEntries(gloss.data, GetLanguagePairs(gloss_mode))
    /\ gloss_pair_idx = 1
    /\ gloss_entries = <<>>
    /\ used_glosses = {}
    /\ gloss_difficulty = 0
    /\ gloss_entry_idx = 0
    /\ generated_count = 0
    /\ gloss_questions = <<>>
    /\ gloss_qid = 0
    /\ gpc = IF gloss_valid_entries = <<>> THEN "returned" ELSE "pairs"

\* questions_per_diff
QuestionsPerDiff == gloss_target \div GlossDifficulties

\* The head of the loop over valid_entries: the entries are shuffled,
\* used_glosses starts empty and the first difficulty begins.
GlossStartPair ==
    /\ gpc = "pairs"
    /\ gloss_pair_idx <= Len(gloss_valid_entries)
    /\ gloss_entries' \in ShuffleResults(gloss_valid_entries[gloss_pair_idx].entries)
    /\ used_glosses' = {}
    /\ gloss_difficulty' = 1
    /\ gloss_entry_idx' = 1
    /\ generated_count' = 0
    /\ gpc' = "entries"
    /\ UNCHANGED <<gloss, gloss_mode, gloss_target, gloss_valid_entries, gloss_pair_idx,
                   gloss_questions, gloss_qid>>
    /\ UNCHANGED <<crawlVars, genVars, balVars, filterVars, analogyVars>>

\* One pass of the loop over entries: the entry is skipped, or a question is
\* appended; the loop is left once generated_count reaches questions_per_diff.
GlossEntryStep ==
    /\ gpc = "entries"
    /\ gloss_entry_idx <= Len(gloss_entries)
    /\ LET entry == gloss_entries[gloss_entry_idx]
           from_code == gloss_valid_entries[gloss_pair_idx].from_code
           to_code == gloss_valid_entries[gloss_pair_idx].to_code
           gloss_text == GlossText(entry, from_code)
           correct_lemma == LemmaIn(entry, to_code)
           touched == LookupTouch(gloss.lemma_lookup, to_code)
           all_candidates == LookupGet(touched, to_code)
           skip == /\ gloss_entry_idx' = gloss_entry_idx + 1
                   /\ UNCHANGED <<used_glosses, generated_count, gloss_questions, gloss_qid>>
       IN  IF gloss_text = <<>> \/ gloss_text \in used_glosses
           THEN skip /\ UNCHANGED gloss
           ELSE /\ gloss' = [gloss EXCEPT !.lemma_lookup = touched]
                /\ IF Cardinality(all_candidates) < gloss.min_distractors
                   THEN skip
                   ELSE \E distractors \in GlossGenerateDistractors(gloss, correct_lemma,
                                                                    all_candidates) :
                           IF Cardinality(distractors) < gloss.n_choices - 1
                           THEN skip
                           ELSE /\ gloss_questions' =
                                      Append(gloss_questions,
                                             [id |-> gloss_qid, from_lang |-> from_code,
                                              to_lang |-> to_code,
                                              difficulty |-> gloss_difficulty,
                                              gloss_text |-> gloss_text,
                                              correct_lemma |-> correct_lemma,
                                              distractors |-> distractors])
                                /\ used_glosses' = used_glosses \cup {gloss_text}
                                /\ gloss_qid' = gloss_qid + 1
                                /\ generated_count' = generated_count + 1
                                /\ gloss_entry_idx' =
                                      IF generated_count + 1 >= QuestionsPerDiff
                                      THEN Len(gloss_entries) + 1
                                      ELSE gloss_entry_idx + 1
    /\ UNCHANGED <<gloss_mode, gloss_target, gloss_valid_entries, gloss_pair_idx,
                   gloss_entries, gloss_difficulty, gpc>>
    /\ UNCHANGED <<crawlVars, genVars, balVars, filterVars, analogyVars>>

\* The loop over entries is over: the next difficulty starts, or after the
\* last one the next language pair.
GlossNextDifficulty ==
    /\ gpc = "entries"
    /\ gloss_entry_idx > Len(gloss_entries)
    /\ IF gloss_difficulty < GlossDifficulties
       THEN /\ gloss_difficulty' = gloss_difficulty + 1
            /\ gloss_entry_idx' = 1
            /\ generated_count' = 0
            /\ UNCHANGED <<gloss_pair_idx, gpc>>
       ELSE /\ gloss_pair_idx' = gloss_pair_idx + 1
            /\ gpc' = "pairs"
            /\ UNCHANGED <<gloss_difficulty, gloss_entry_idx, generated_count>>
    /\ UNCHANGED <<gloss, gloss_mode, gloss_target, gloss_valid_entries, gloss_entries,
                   used_glosses, gloss_questions, gloss_qid>>
    /\ UNCHANGED <<crawlVars, genVars, balVars, filterVars, analogyVars>>

\* Every language pair is done: the questions are written to the file.
GlossSave ==
    /\ gpc = "pairs"
    /\ gloss_pair_idx > Len(gloss_valid_entries)
    /\ gpc' = "saved"
    /\ UNCHANGED <<gloss, gloss_mode, gloss_target, gloss_valid_entries, gloss_pair_idx,
                   gloss_entries, used_glosses, gloss_difficulty, gloss_entry_idx,
                   generated_count, gloss_questions, gloss_qid>>
    /\ UNCHANGED <<crawlVars, genVars, balVars, filterVars, analogyVars>>

NextGloss == GlossStartPair \/ GlossEntryStep \/ GlossNextDifficulty \/ GlossSave

SpecGloss == GlossInit /\ [][NextGloss]_vars

-----------------------------------------------------------------------------
(* Claims about the gloss questions (checked under SpecGloss) *)

\* The records emitted so far for a language pair.
GlossRecords(from_code, to_code) ==
    {i \in DOMAIN gloss_questions :
        /\ gloss_questions[i].from_lang = from_code
        /\ gloss_questions[i].to_lang = to_code}

\* No gloss text is used twice within a language pair.
GlossesUsedOnce ==
    \A from_code \in Langs, to_code \in Langs :
        \A i \in GlossRecords(from_code, to_code), j \in GlossRecords(from_code, to_code) :
            gloss_questions[i].gloss_text = gloss_questions[j].gloss_text => i = j

\* C27: for every target_questions_per_pair = T >= 0, generate_gloss_questions
\* emits at most T records for each language pair, at most T div 3 at each of
\* the 3 difficulty levels, and uses no gloss text twice within a language
\* pair. Stated as claimed; the count is compared with the quota only after a
\* record was appended.
C27_AtMostTargetPerPair ==
    /\ \A from_code \in Langs, to_code \in Langs :
          /\ Cardinality(GlossRecords(from_code, to_code)) <= gloss_target
          /\ \A level \in 1..GlossDifficulties :
                Cardinality({i \in GlossRecords(from_code, to_code) :
                                gloss_questions[i].difficulty = level})
                    <= gloss_target \div GlossDifficulties
    /\ GlossesUsedOnce


-----------------------------------------------------------------------------
(* The crawl of the same input file with its lines in another order *)

\* process_file is called again in the same process on the seeds of the
\* earlier call in a different order: visited_synsets is a new dict, the
\* module-level caches and the earlier output are still there.
RunPermuted ==
    /\ pc = "done"
    /\ run < MaxRuns
    /\ seeds' \in ShuffleResults(seeds) \ {seeds}
    /\ run' = run + 1
    /\ visited' = <<>>
    /\ seedIdx' = 1
    /\ pc' = "seeds"
    /\ discovered' = [n \in NodesOf(graph) |-> 0]
    /\ expanded' = [n \in NodesOf(graph) |-> 0]
    /\ UNCHANGED <<graph, failNodes, failEdges, max_depth, max_items,
                   synset_cache, lemma_cache, queue, pbar, output, served>>
    /\ UNCHANGED <<genVars, balVars, filterVars, analogyVars, glossVars>>

NextOrder == StartTraversal \/ TraverseStep \/ EndTraversal \/ WriteOutput \/ RunPermuted

SpecOrder == Init /\ [][NextOrder]_vars

\* C28: the set of identifiers process_file outputs does not depend on the
\* order of the seeds: the call on a permutation of the seed list writes the
\* same set as the call before it, for every graph, depth and fan-out.
\* Stated as claimed; a seed recorded at depth max_depth by an earlier seed's
\* traversal is not expanded as a root (the skipped seeds of C5), and which
\* seed that happens to depends on the order.
C28_OutputIndependentOfSeedOrder ==
    [][(pc = "seeds" /\ pc' = "done" /\ run >= 2)
          => DOMAIN output' = DOMAIN output]_vars


-----------------------------------------------------------------------------
(* Claims about unlabelled nodes (checked under Spec) *)

\* The nodes within d hops of a node of S when only labelled, fetchable
\* neighbours are followed (sibling terms being neighbours in their own
\* right, found through any fetchable broader term).
RECURSIVE LabelledReach(_, _, _)
LabelledReach(g, S, d) ==
    IF d = 0 THEN S
    ELSE LET R == LabelledReach(g, S, d - 1)
         IN  R \cup {m \in UNION {Neighbours(g, n, failNodes) : n \in R} :
                        g.lemma[m] # NA}

\* The neighbours that have no label or cannot be fetched.
Unlabelled == {n \in NodesOf(graph) : graph.lemma[n] = NA} \cup failNodes

\* C29: only seeds can carry the label "N/A": a neighbour without a label, or
\* whose fetch failed, is never enqueued, recorded or expanded, so every
\* non-seed node recorded or written has a real label, and a node that can be
\* reached only through such a neighbour is not discovered.
C29_OnlySeedsUnlabelled ==
    /\ \A i \in DOMAIN queue : queue[i][2] > 0 => queue[i][1] \notin Unlabelled
    /\ \A n \in DOMAIN visited : visited[n] = NA => n \in Range(seeds)
    /\ \A n \in DOMAIN output : output[n] = NA => n \in Range(seeds)
    /\ \A n \in Unlabelled \ Range(seeds) :
          discovered[n] = 0 /\ expanded[n] = 0 /\ n \notin DOMAIN output
    /\ DOMAIN visited \subseteq LabelledReach(graph, Range(seeds), max_depth)
    /\ DOMAIN output \subseteq LabelledReach(graph, Range(seeds), max_depth)

\* C29 witness: a crawl from node 1, deep and wide enough to go on, has ended
\* without the unlabelled broader term 2 and without node 3, which only 2
\* leads to, while the labelled broader term 4 was recorded.
C29_Witness ==
    /\ pc = "done"
    /\ NoFailures
    /\ seeds = <<1>>
    /\ max_depth >= 2
    /\ max_items >= 2
    /\ graph.hyper[1] = <<2, 4>>
    /\ graph.lemma[2] = NA
    /\ graph.hypo[3] = <<2>>
    /\ DOMAIN output = {1, 4}


-----------------------------------------------------------------------------
(* Claims about the options of a hypernymy question (checked under SpecQ) *)

\* The target-language labels of the prompt entry's broader terms.
HypernymLabels == LemmasOf(CalledEntry.hypernyms, call.to_code)

\* C30: in every hypernymy question, at any tier, no distractor is the
\* target-language label of another broader term of the prompt entry: the
\* correct option is the only option that is a valid hypernym. Stated as
\* claimed; the tier-3 pool is made of the prompt's own broader and narrower
\* terms, and only the chosen one is discarded.
C30_CorrectIsOnlyHypernymOption ==
    (Returned /\ call.task_type = "hypernymy")
        => Distractors \cap (HypernymLabels \ {CorrectLabel}) = {}

====
